---------------------------- MODULE Spec2Model ----------------------------
(***************************************************************************)
(* A model of the ElderCare dialog engine: the voice assistant             *)
(* (src/eldercare_assistant.py) and the graphical front end                *)
(* (src/eldercare_gui.py).                                                 *)
(*                                                                         *)
(* Conventions.                                                            *)
(*  - A Python str is a sequence of one-character strings, so that         *)
(*    lower(), strip(), `in` and the regular expressions are computed.     *)
(*  - listen() returns None or a non-empty text; every test the code       *)
(*    applies to a reply is truthiness (`if not value`), so None and ""    *)
(*    are both the empty sequence <<>>.                                    *)
(*  - A float is an integer count of hundredths (145.0 is 14500).          *)
(*  - A DataFrame cell is <<>> (NaN, nothing recorded) or <<v>>.           *)
(***************************************************************************)
EXTENDS Integers, Sequences, FiniteSets, TLC

VARIABLES
    cls_input,      \* identify_command: the utterance handed in
    cls_output,     \* identify_command: the result, "pending" before the call
    frontend,       \* the program that runs: "voice" (eldercare_assistant.py), "gui" (eldercare_gui.py), "none"
    session,        \* what the user talks about in this run; bounds the replies
    now,            \* the wall clock: [day, tp (index in TimePoints), half (0: HH:MM:05, 1: HH:MM:35)]
    pc,             \* where run() stands; "off" when the voice loop does not run
    frame,          \* the locals of the flow in progress
    consecutive_failures,
    empty_run,      \* history: the listen() calls of run() that came back empty, one after another
    user_profile,   \* ElderCareVoiceAssistant.user_profile
    health_data,    \* ElderCareVoiceAssistant.health_data, a sequence of rows
    tts,            \* the pyttsx3 engine's properties: [rate, volume]
    disk_profile,   \* user_profile.json
    disk_health,    \* health_data.csv
    response_queue, \* ElderCareVoiceAssistant.response_queue
    spoken,         \* the reminders run() has spoken, in order
    gui_health_data, \* ElderCareGUI.health_data
    gui_user_profile, \* ElderCareGUI.user_profile
    jobs,           \* schedule.jobs: the jobs of the schedule module, [at, text, next_run, id]
    reminder_queue, \* ElderCareGUI.reminder_queue
    enqueued,       \* history: every put on a reminder queue, [id, day, at, text]
    faults,         \* history: the interrupts and I/O errors so far
    call,           \* a function of the program called on its own: its arguments
    result          \* [done, value]: whether the call has returned, and what

clsVars == <<cls_input, cls_output, call, result>>
envVars == <<frontend, session>>
voiceVars == <<pc, frame, consecutive_failures, empty_run, user_profile, health_data, tts, response_queue, spoken>>
diskVars == <<disk_profile, disk_health>>
guiVars == <<gui_health_data, gui_user_profile>>
remVars == <<jobs, reminder_queue, enqueued>>
vars == <<cls_input, cls_output, frontend, session, now, pc, frame, consecutive_failures, empty_run,
          user_profile, health_data, tts, disk_profile, disk_health, response_queue, spoken,
          gui_health_data, gui_user_profile, jobs, reminder_queue, enqueued, faults, call, result>>

----------------------------------------------------------------------------
(* Python str operations *)

UpperCase == <<"A","B","C","D","E","F","G","H","I","J","K","L","M","N","O","P","Q","R","S","T","U","V","W","X","Y","Z">>
LowerCase == <<"a","b","c","d","e","f","g","h","i","j","k","l","m","n","o","p","q","r","s","t","u","v","w","x","y","z">>
Digits == <<"0","1","2","3","4","5","6","7","8","9">>
Whitespace == {" ", "\t", "\n"}

IndexOf(c, s) == CHOOSE i \in 1..Len(s) : s[i] = c
InSeq(c, s) == \E i \in 1..Len(s) : s[i] = c

\* str.lower(), one character
LowerChar(c) == IF InSeq(c, UpperCase) THEN LowerCase[IndexOf(c, UpperCase)] ELSE c

\* str.lower()
Lower(s) == [i \in 1..Len(s) |-> LowerChar(s[i])]

\* str.strip(): leading and trailing whitespace removed
Strip(s) ==
    LET keep == {i \in 1..Len(s) : s[i] \notin Whitespace}
    IN  IF keep = {} THEN <<>>
        ELSE LET lo == CHOOSE i \in keep : \A j \in keep : i <= j
                 hi == CHOOSE i \in keep : \A j \in keep : j <= i
             IN  SubSeq(s, lo, hi)

\* sub in s
Contains(sub, s) ==
    \E i \in 0..(Len(s) - Len(sub)) : SubSeq(s, i + 1, i + Len(sub)) = sub

----------------------------------------------------------------------------
(* Intent classifier *)

NoneCmd == "None"

\* self.command_keywords, in declaration order (a dict keeps insertion order)
command_keywords == <<
    [command |-> "record glucose",
     keywords |-> << <<"r","e","c","o","r","d"," ","g","l","u","c","o","s","e">>, <<"b","l","o","o","d"," ","s","u","g","a","r">>, <<"g","l","u","c","o","s","e"," ","r","e","a","d","i","n","g">>, <<"s","u","g","a","r"," ","l","e","v","e","l">> >>],
    [command |-> "record sleep",
     keywords |-> << <<"r","e","c","o","r","d"," ","s","l","e","e","p">>, <<"h","o","w"," ","i"," ","s","l","e","p","t">>, <<"s","l","e","e","p"," ","h","o","u","r","s">>, <<"h","o","u","r","s"," ","o","f"," ","s","l","e","e","p">> >>],
    [command |-> "record medication",
     keywords |-> << <<"r","e","c","o","r","d"," ","m","e","d","i","c","a","t","i","o","n">>, <<"t","o","o","k"," ","m","y"," ","p","i","l","l","s">>, <<"m","e","d","i","c","a","t","i","o","n"," ","t","a","k","e","n">>, <<"m","e","d","i","c","i","n","e","s">> >>],
    [command |-> "health data",
     keywords |-> << <<"h","o","w"," ","a","m"," ","i"," ","d","o","i","n","g">>, <<"m","y"," ","h","e","a","l","t","h"," ","d","a","t","a">>, <<"h","e","a","l","t","h"," ","r","e","p","o","r","t">>, <<"p","r","o","g","r","e","s","s">> >>],
    [command |-> "emergency",
     keywords |-> << <<"e","m","e","r","g","e","n","c","y">>, <<"h","e","l","p"," ","m","e">>, <<"n","e","e","d"," ","h","e","l","p">>, <<"c","a","l","l"," ","f","o","r"," ","h","e","l","p">>, <<"u","r","g","e","n","t">> >>],
    [command |-> "update profile",
     keywords |-> << <<"u","p","d","a","t","e"," ","p","r","o","f","i","l","e">>, <<"c","h","a","n","g","e"," ","m","y"," ","i","n","f","o","r","m","a","t","i","o","n">>, <<"u","p","d","a","t","e"," ","m","y"," ","d","e","t","a","i","l","s">>, <<"m","y"," ","p","r","o","f","i","l","e">> >>],
    [command |-> "list medications",
     keywords |-> << <<"l","i","s","t"," ","m","e","d","i","c","a","t","i","o","n">>, <<"m","y"," ","m","e","d","i","c","a","t","i","o","n">>, <<"w","h","a","t"," ","m","e","d","i","c","a","t","i","o","n","s">>, <<"s","h","o","w"," ","m","e","d","i","c","i","n","e","s">> >>],
    [command |-> "adjust voice",
     keywords |-> << <<"a","d","j","u","s","t"," ","v","o","i","c","e">>, <<"c","h","a","n","g","e"," ","v","o","i","c","e">>, <<"v","o","i","c","e"," ","s","e","t","t","i","n","g","s">>, <<"s","p","e","a","k"," ","s","l","o","w","e","r">>, <<"s","p","e","a","k"," ","f","a","s","t","e","r">> >>],
    [command |-> "help",
     keywords |-> << <<"h","e","l","p">>, <<"w","h","a","t"," ","c","a","n"," ","y","o","u"," ","d","o">>, <<"c","o","m","m","a","n","d","s">>, <<"o","p","t","i","o","n","s">>, <<"f","e","a","t","u","r","e","s">> >>],
    [command |-> "exit",
     keywords |-> << <<"e","x","i","t">>, <<"q","u","i","t">>, <<"g","o","o","d","b","y","e">>, <<"b","y","e">>, <<"s","t","o","p"," ","l","i","s","t","e","n","i","n","g">>, <<"s","h","u","t"," ","d","o","w","n">> >>]
  >>

\* clean_input in keywords
ExactIn(clean_input, keywords) == \E k \in 1..Len(keywords) : keywords[k] = clean_input

\* any(keyword in clean_input for keyword in keywords)
AnyKeywordIn(clean_input, keywords) ==
    \E k \in 1..Len(keywords) : Contains(keywords[k], clean_input)

\* the first command of the table, in order, that satisfies Hit; NoneCmd if none does
FirstCommand(Hit(_)) ==
    LET hits == {i \in 1..Len(command_keywords) : Hit(command_keywords[i].keywords)}
    IN  IF hits = {} THEN NoneCmd
        ELSE command_keywords[CHOOSE i \in hits : \A j \in hits : i <= j].command

\* ElderCareGUI.identify_command(): one pass over the commands, the first
\* whose keywords hold the input itself or one of which is a part of it
ElderCareGUI_identify_command(user_input) ==
    IF user_input = <<>> THEN NoneCmd
    ELSE LET clean_input == Strip(Lower(user_input))
             Matches(keywords) == \/ ExactIn(clean_input, keywords)
                                  \/ AnyKeywordIn(clean_input, keywords)
         IN  FirstCommand(Matches)

\* a variant that runs both tests command by command
identify_command_interleaved(user_input) ==
    IF user_input = <<>> THEN NoneCmd
    ELSE LET clean_input == Strip(Lower(user_input))
             Either(keywords) == ExactIn(clean_input, keywords) \/ AnyKeywordIn(clean_input, keywords)
         IN  FirstCommand(Either)

\* a variant whose partial pass keeps the last command that matches
identify_command_lastmatch(user_input) ==
    IF user_input = <<>> THEN NoneCmd
    ELSE LET clean_input == Strip(Lower(user_input))
             Exact(keywords) == ExactIn(clean_input, keywords)
             hits == {i \in 1..Len(command_keywords) :
                         AnyKeywordIn(clean_input, command_keywords[i].keywords)}
         IN  IF FirstCommand(Exact) # NoneCmd THEN FirstCommand(Exact)
             ELSE IF hits = {} THEN NoneCmd
             ELSE command_keywords[CHOOSE i \in hits : \A j \in hits : j <= i].command

\* ElderCareVoiceAssistant.identify_command
identify_command(user_input) ==
    IF user_input = <<>> THEN NoneCmd
    ELSE LET clean_input == Strip(Lower(user_input))
             Exact(keywords) == ExactIn(clean_input, keywords)
             Partial(keywords) == AnyKeywordIn(clean_input, keywords)
         IN  IF FirstCommand(Exact) # NoneCmd THEN FirstCommand(Exact)
             ELSE FirstCommand(Partial)

----------------------------------------------------------------------------
(* Numbers: float() and the number pattern of the flows *)

IsDigit(c) == InSeq(c, Digits)
DigitVal(c) == IndexOf(c, Digits) - 1

\* int() of a run of digits
RECURSIVE NatOf(_)
NatOf(ds) == IF ds = <<>> THEN 0 ELSE 10 * NatOf(SubSeq(ds, 1, Len(ds) - 1)) + DigitVal(ds[Len(ds)])

\* the last index of the run of digits that starts at i
RunEnd(s, i) == CHOOSE j \in i..Len(s) :
    /\ \A k \in i..j : IsDigit(s[k])
    /\ (j = Len(s) \/ ~IsDigit(s[j + 1]))

\* re.search(r'\d+\.?\d*', s): the matched text, <<>> when nothing matches
RegexNumber(s) ==
    LET starts == {i \in 1..Len(s) : IsDigit(s[i])}
    IN  IF starts = {} THEN <<>>
        ELSE LET i0 == CHOOSE i \in starts : \A j \in starts : i <= j
                 j1 == RunEnd(s, i0)
                 j2 == IF j1 < Len(s) /\ s[j1 + 1] = "."
                       THEN (IF j1 + 1 < Len(s) /\ IsDigit(s[j1 + 2]) THEN RunEnd(s, j1 + 2) ELSE j1 + 1)
                       ELSE j1
             IN  SubSeq(s, i0, j2)

\* re.search(r'\d+', s): the matched text, <<>> when nothing matches
RegexInteger(s) ==
    LET starts == {i \in 1..Len(s) : IsDigit(s[i])}
    IN  IF starts = {} THEN <<>>
        ELSE LET i0 == CHOOSE i \in starts : \A j \in starts : i <= j
             IN  SubSeq(s, i0, RunEnd(s, i0))

\* s.replace(sub, "")
RECURSIVE Remove(_, _)
Remove(sub, s) ==
    IF Len(s) < Len(sub) \/ sub = <<>> THEN s
    ELSE IF SubSeq(s, 1, Len(sub)) = sub THEN Remove(sub, SubSeq(s, Len(sub) + 1, Len(s)))
    ELSE <<s[1]>> \o Remove(sub, Tail(s))

\* float("inf"), in hundredths: larger than every number a reply can hold
Infinity == 100000000

ValueError == [ok |-> FALSE, nan |-> FALSE, v |-> 0]
Float(v) == [ok |-> TRUE, nan |-> FALSE, v |-> v]
NaN == [ok |-> TRUE, nan |-> TRUE, v |-> 0]

\* digits[.digits] in hundredths; the texts of the model hold at most two decimals
DecimalValue(t) ==
    LET dot == {i \in 1..Len(t) : t[i] = "."}
        d == IF dot = {} THEN Len(t) + 1 ELSE CHOOSE i \in dot : TRUE
        frac == SubSeq(t, d + 1, Len(t)) \o <<"0", "0">>
    IN  100 * NatOf(SubSeq(t, 1, d - 1)) + NatOf(SubSeq(frac, 1, 2))

\* float(s): [ok, nan, v], ok = FALSE for a ValueError.  Decimal notation,
\* nan, inf and infinity; no exponents.
PyFloat(s) ==
    LET t == Strip(s)
        neg == t # <<>> /\ t[1] = "-"
        u == IF t # <<>> /\ t[1] \in {"-", "+"} THEN Tail(t) ELSE t
        dots == {i \in 1..Len(u) : u[i] = "."}
        digs == {i \in 1..Len(u) : IsDigit(u[i])}
    IN  IF Lower(u) = <<"n","a","n">> THEN NaN
        ELSE IF Lower(u) \in { <<"i","n","f">>, <<"i","n","f","i","n","i","t","y">> }
             THEN Float(IF neg THEN 0 - Infinity ELSE Infinity)
        ELSE IF digs # {} /\ Cardinality(dots) <= 1 /\ digs \cup dots = 1..Len(u)
             THEN Float(IF neg THEN 0 - DecimalValue(u) ELSE DecimalValue(u))
        ELSE ValueError

\* x < y, x > y, x <= y on floats: every comparison with nan is False
FloatLt(x, y) == ~x.nan /\ x.v < y
FloatGt(x, y) == ~x.nan /\ x.v > y
FloatLe(x, y) == ~x.nan /\ x.v <= y

----------------------------------------------------------------------------
(* The Metric Store: a DataFrame as a sequence of rows *)

\* a cell holding the float x; NaN is the empty cell
Cell(x) == IF x.nan THEN <<>> ELSE <<x.v>>

\* pd.DataFrame([{'date': today}]): every other column NaN.  The columns
\* activity_minutes, mood and pain_level are never written and are left out.
NewRow(today) ==
    [date |-> today, glucose_morning |-> <<>>, glucose_evening |-> <<>>,
     medication_adherence |-> <<>>, sleep_hours |-> <<>>, notes |-> <<>>]

\* df[df['date'] == today]
RowsOf(df, today) == {i \in 1..Len(df) : df[i].date = today}

\* the variant that appends a row whether or not the date has one
EnsureToday_always(df, today) == Append(df, NewRow(today))

\* if today_data.empty: df = pd.concat([df, pd.DataFrame([new_row])])
EnsureToday(df, today) ==
    IF RowsOf(df, today) = {} THEN Append(df, NewRow(today)) ELSE df

\* df.loc[df['date'] == today, column] = value
SetCell(df, today, column, value) ==
    [i \in 1..Len(df) |-> IF df[i].date = today THEN [df[i] EXCEPT ![column] = value] ELSE df[i]]

----------------------------------------------------------------------------
(* The Profile *)

\* the default profile of _load_user_profile; voice_speed and volume in thousandths
DefaultProfile ==
    [name |-> <<"U","s","e","r">>,
     age |-> 75,
     medications |-> <<
        [name |-> <<"M","e","t","f","o","r","m","i","n">>, dosage |-> <<"5","0","0","m","g">>, frequency |-> <<"t","w","i","c","e"," ","d","a","i","l","y">>,
         times |-> << <<"0","8",":","0","0">>, <<"2","0",":","0","0">> >>],
        [name |-> <<"L","i","s","i","n","o","p","r","i","l">>, dosage |-> <<"1","0","m","g">>, frequency |-> <<"o","n","c","e"," ","d","a","i","l","y">>,
         times |-> << <<"0","8",":","0","0">> >>] >>,
     emergency_contact |-> [name |-> <<"F","a","m","i","l","y"," ","M","e","m","b","e","r">>, phone |-> <<"1","2","3","-","4","5","6","-","7","8","9","0">>],
     preferences |-> [voice_speed |-> 800, volume |-> 900]]

\* the engine properties set in __init__ and restored by audio_feedback("listening")
DefaultTts == [rate |-> 150, volume |-> 900]

----------------------------------------------------------------------------
(* What the user says.  session bounds the run: each session is one topic, *)
(* so that the stores of different topics are not multiplied.              *)

Sessions ==
    {"glucose", "sleep", "medication", "daily", "other", "reminders",
     "name", "age", "medications", "contact"}

\* the utterances run() may acquire at the top of the loop; <<>> is "no input"
LoopUtterances ==
    CASE session = "glucose" -> { <<"r","e","c","o","r","d"," ","g","l","u","c","o","s","e">> }
      [] session = "sleep" -> { <<"r","e","c","o","r","d"," ","s","l","e","e","p">> }
      [] session = "medication" -> { <<"r","e","c","o","r","d"," ","m","e","d","i","c","a","t","i","o","n">> }
      [] session = "reminders" -> { <<"u","p","d","a","t","e"," ","m","y"," ","p","r","o","f","i","l","e">>, <<"h","e","l","p"," ","m","e">>, <<"s","p","e","a","k"," ","s","l","o","w","e","r">>, <<"r","e","c","o","r","d"," ","s","l","e","e","p">>, <<"l","i","s","t"," ","m","e","d","i","c","a","t","i","o","n","s">> }
      [] session \in {"name", "age", "medications", "contact"} -> { <<"u","p","d","a","t","e"," ","p","r","o","f","i","l","e">> }
      [] session = "daily" -> { <<"m","y"," ","b","l","o","o","d"," ","s","u","g","a","r">>, <<"h","o","w"," ","i"," ","s","l","e","p","t">>, <<"t","o","o","k"," ","m","y"," ","p","i","l","l","s">> }
      [] OTHER -> { <<>>, <<"h","e","l","p">>, <<"h","e","l","p"," ","m","e">>, <<"w","h","a","t"," ","m","e","d","i","c","a","t","i","o","n","s"," ","d","o"," ","i"," ","t","a","k","e">>, <<"h","o","w"," ","a","m"," ","i"," ","d","o","i","n","g">>,
                    <<"s","p","e","a","k"," ","s","l","o","w","e","r">>, <<"g","o","o","d"," ","m","o","r","n","i","n","g">>, <<"g","o","o","d","b","y","e">> }

GlucoseValueReplies ==
    IF session = "glucose"
    THEN { <<>>, <<"1","4","5">>, <<"i","t"," ","w","a","s"," ","1","1","0",".","5"," ","m","g">>, <<"o","n","e"," ","t","w","e","n","t","y">> }
    ELSE { <<"1","4","5">> }

GlucoseTimingReplies ==
    IF session = "glucose"
    THEN { <<>>, <<"t","h","i","s"," ","m","o","r","n","i","n","g">>, <<"e","v","e","n","i","n","g">> }
    ELSE { <<"m","o","r","n","i","n","g">>, <<"e","v","e","n","i","n","g">> }

SleepValueReplies ==
    IF session = "sleep"
    THEN { <<>>, <<"7",".","5"," ","h","o","u","r","s">>, <<"5">>, <<"0"," ","h","o","u","r","s">>, <<"2","5">>, <<"n","o","t"," ","m","u","c","h">>, <<"i","n","f","i","n","i","t","y"," ","h","o","u","r","s">> }
    ELSE { <<"7",".","5"," ","h","o","u","r","s">> }

MedTakenReplies ==
    IF session = "medication"
    THEN { <<>>, <<"y","e","s"," ","i"," ","d","i","d">>, <<"n","o">> }
    ELSE { <<"y","e","a","h">> }

MedWhichReplies == { <<>>, <<"i"," ","t","o","o","k"," ","m","y"," ","m","e","t","f","o","r","m","i","n">>, <<"t","h","e"," ","w","h","i","t","e"," ","o","n","e">> }
MedMissedReplies == { <<>>, <<"l","i","s","i","n","o","p","r","i","l">> }
EmergencyReplies ==
    IF session = "other"
    THEN { <<>>, <<"y","e","s">>, <<"n","o"," ","i"," ","a","m"," ","f","i","n","e">>, <<"H","e","l","p"," ","m","e">>, <<"o","h"," ","p","l","e","a","s","e">> }
    ELSE { <<"y","e","s">> }
VoiceReplies ==
    IF session = "other"
    THEN { <<>>, <<"s","l","o","w","e","r">>, <<"f","a","s","t","e","r"," ","p","l","e","a","s","e">>, <<"l","o","u","d","e","r">>, <<"q","u","i","e","t","e","r">>, <<"d","e","e","p","e","r">> }
    ELSE { <<"s","l","o","w","e","r">> }
VoiceFollowupReplies ==
    IF session = "other"
    THEN { <<>>, <<"n","o">>, <<"y","e","s"," ","t","h","a","t"," ","i","s"," ","b","e","t","t","e","r">>, <<"f","i","n","e">> }
    ELSE { <<"f","i","n","e">> }
StalledReplies == { <<>>, <<"y","e","s">> }

----------------------------------------------------------------------------
(* The voice assistant: run() and its flows.  One action is the code from  *)
(* one listen() to the next (or to a save).                                *)

\* max_failures of run()
max_failures == 3

NoFrame ==
    [today |-> 0, value |-> <<>>, timing |-> <<>>,
     name |-> <<>>, dosage |-> <<>>, frequency |-> <<>>, times |-> <<>>, digits |-> <<>>,
     guarded |-> FALSE,
     rejected |-> {}, accepted |-> <<>>, \* history: the names answered with "no", the name that was not
     before |-> <<>>,                    \* history: health_data when the record flow was entered
     entered |-> [name |-> <<>>, age |-> 0], \* history: name and age when update_profile was entered
     confirmation |-> <<>>,              \* history: the reply to the read-back that led to the save
     called |-> FALSE,                   \* handle_emergency: the call of the emergency contact was announced
     backend |-> "none"]                 \* history: how the backend of the open reply answered

\* listen(): audio_feedback("listening") leaves the engine at rate 150, volume 0.9
Listened == tts' = DefaultTts

\* back to the top of the loop of run()
Return == pc' = "loop_top" /\ frame' = NoFrame

\* save_user_data()
save_user_data == disk_profile' = user_profile /\ disk_health' = health_data

\* the variant that takes the newest item
get_nowait_newest(q) == [item |-> q[Len(q)], rest |-> SubSeq(q, 1, Len(q) - 1)]

\* queue.Queue.get_nowait() on a queue that is not empty: the oldest item
get_nowait(q) == [item |-> Head(q), rest |-> Tail(q)]

\* the variant in which the reminder taken from the queue is not spoken
CheckReminders_unspoken ==
    /\ pc = "loop_top"
    /\ response_queue' = IF response_queue # <<>> THEN get_nowait(response_queue).rest ELSE response_queue
    /\ pc' = "loop_listen"
    /\ UNCHANGED <<frame, consecutive_failures, empty_run, user_profile, health_data, tts, spoken>>
    /\ UNCHANGED <<diskVars, guiVars, clsVars, envVars, remVars, faults, now>>

\* run(), the top of the loop: one reminder is taken from the queue and spoken
CheckReminders ==
    /\ pc = "loop_top"
    /\ IF response_queue # <<>>
       THEN /\ spoken' = Append(spoken, get_nowait(response_queue).item)
            /\ response_queue' = get_nowait(response_queue).rest
       ELSE UNCHANGED <<spoken, response_queue>>
    /\ pc' = "loop_listen"
    /\ UNCHANGED <<frame, consecutive_failures, empty_run, user_profile, health_data, tts>>
    /\ UNCHANGED <<diskVars, guiVars, clsVars, envVars, remVars, faults, now>>

\* record_health_data(data_type), up to its first question
RecordStart(first) ==
    /\ health_data' = EnsureToday(health_data, now.day)
    /\ frame' = [NoFrame EXCEPT !.today = now.day, !.before = health_data]
    /\ pc' = first

\* run(): the command is handled
Dispatch(user_input) ==
    LET command == identify_command(user_input)
    IN  CASE command = "exit" -> pc' = "exit_save" /\ UNCHANGED <<frame, health_data>>
          [] command = "emergency" -> pc' = "emergency_ask" /\ UNCHANGED <<frame, health_data>>
          [] command = "record glucose" -> RecordStart("glucose_value")
          [] command = "record sleep" -> RecordStart("sleep_value")
          [] command = "record medication" -> RecordStart("med_taken")
          [] command = "adjust voice" -> pc' = "voice_ask" /\ UNCHANGED <<frame, health_data>>
          [] command = "update profile" ->
                /\ pc' = "up_item"
                /\ frame' = [NoFrame EXCEPT !.entered = [name |-> user_profile.name, age |-> user_profile.age]]
                /\ UNCHANGED health_data
          [] command = NoneCmd -> pc' = "groq_call" /\ UNCHANGED <<frame, health_data>>
          [] OTHER -> \* help, list medications, health data: spoken, nothing kept
                      Return /\ UNCHANGED health_data

\* run(): listen() at the top of the loop, the failure counter, the dispatch
RunListen ==
    /\ pc = "loop_listen"
    /\ \E user_input \in LoopUtterances :
          IF user_input = <<>>
          THEN /\ consecutive_failures' = consecutive_failures + 1
               /\ empty_run' = empty_run + 1
               /\ pc' = IF consecutive_failures + 1 >= max_failures THEN "stalled" ELSE "loop_top"
               /\ UNCHANGED <<frame, health_data>>
          ELSE /\ consecutive_failures' = 0
               /\ empty_run' = 0
               /\ Dispatch(user_input)
    /\ Listened
    /\ UNCHANGED <<user_profile, response_queue, spoken>>
    /\ UNCHANGED <<diskVars, guiVars, clsVars, envVars, remVars, faults, now>>

\* how the request of process_with_groq may end: a status code with a body,
\* or an exception of requests.post
BackendOutcomes ==
    { [status |-> 200, body |-> "choices"], [status |-> 200, body |-> "not json"],
      [status |-> 201, body |-> "choices"], [status |-> 429, body |-> "error"],
      [status |-> 500, body |-> "error"], [status |-> 503, body |-> "not json"],
      [status |-> 0, body |-> "ConnectionError"], [status |-> 0, body |-> "Timeout"] }

TroubleThinking == "I'm having trouble thinking right now. Can we try again in a moment?"
TechnicalIssue == "I apologize, but I'm experiencing a technical issue. Let's try again."

\* the variant without the except clause
process_with_groq_unguarded(outcome) ==
    IF outcome.status = 0 THEN [raised |-> TRUE, text |-> outcome.body]
    ELSE IF outcome.status = 200
         THEN IF outcome.body = "choices" THEN [raised |-> FALSE, text |-> "assistant_response"]
              ELSE [raised |-> TRUE, text |-> "JSONDecodeError"]
    ELSE [raised |-> FALSE, text |-> TroubleThinking]

\* process_with_groq(): what it returns, and whether it raises instead
process_with_groq(outcome) ==
    IF outcome.status = 0 THEN [raised |-> FALSE, text |-> TechnicalIssue]  \* except Exception
    ELSE IF outcome.status = 200
         THEN IF outcome.body = "choices" THEN [raised |-> FALSE, text |-> "assistant_response"]
              ELSE [raised |-> FALSE, text |-> TechnicalIssue]            \* response.json() or a key fails
    ELSE [raised |-> FALSE, text |-> TroubleThinking]

\* run(): response = self.process_with_groq(user_input)
ProcessWithGroq ==
    /\ pc = "groq_call"
    /\ \E outcome \in BackendOutcomes :
          LET response == process_with_groq(outcome)
          IN  /\ pc' = IF response.raised THEN "error_handler" ELSE "groq_speak"
              /\ frame' = [NoFrame EXCEPT !.value = <<response.text>>,   \* the sentence, as one item
                                          !.backend = IF outcome.status = 0 THEN outcome.body
                                                      ELSE IF outcome.status \in 200..299 THEN "2xx" ELSE "not 2xx"]
    /\ UNCHANGED <<consecutive_failures, empty_run, user_profile, health_data, tts, response_queue, spoken>>
    /\ UNCHANGED <<diskVars, guiVars, clsVars, envVars, remVars, faults, now>>

\* run(): self.speak(response), time.sleep(0.5), the next iteration
GroqSpeak ==
    /\ pc = "groq_speak"
    /\ Return
    /\ UNCHANGED <<consecutive_failures, empty_run, user_profile, health_data, tts, response_queue, spoken>>
    /\ UNCHANGED <<diskVars, guiVars, clsVars, envVars, remVars, faults, now>>

\* run(): "Are you still there?" and its reply
StalledListen ==
    /\ pc = "stalled"
    /\ \E response \in StalledReplies :
          IF response = <<>>
          THEN pc' = "paused" /\ empty_run' = empty_run + 1 /\ UNCHANGED consecutive_failures
          ELSE pc' = "loop_top" /\ empty_run' = 0 /\ consecutive_failures' = 1
    /\ Listened
    /\ UNCHANGED <<frame, user_profile, health_data, response_queue, spoken>>
    /\ UNCHANGED <<diskVars, guiVars, clsVars, envVars, remVars, faults, now>>

\* run(): input("Press Enter to continue...") returns
Resume ==
    /\ pc = "paused"
    /\ consecutive_failures' = 0
    /\ empty_run' = 0
    /\ pc' = "loop_top"
    /\ UNCHANGED <<frame, user_profile, health_data, tts, response_queue, spoken>>
    /\ UNCHANGED <<diskVars, guiVars, clsVars, envVars, remVars, faults, now>>

\* run(): the exit branch after the goodbye: save_user_data(), break
ExitSave ==
    /\ pc = "exit_save"
    /\ save_user_data
    /\ pc' = "done"
    /\ UNCHANGED <<frame, consecutive_failures, empty_run, user_profile, health_data, tts, response_queue, spoken>>
    /\ UNCHANGED <<guiVars, clsVars, envVars, remVars, faults, now>>

\* what a step of a flow leaves alone besides pc, frame, health_data, tts and the disk
FlowFrame ==
    /\ UNCHANGED <<consecutive_failures, empty_run, response_queue, spoken>>
    /\ UNCHANGED <<guiVars, clsVars, envVars, remVars, faults, now>>

(* record glucose *)

\* the number of a glucose reply: the pattern, else float(value.replace("mg", "").strip())
GlucoseNumber(value) ==
    IF RegexNumber(value) # <<>> THEN PyFloat(RegexNumber(value))
    ELSE PyFloat(Strip(Remove(<<"m","g">>, value)))

\* the column a timing reply names
GlucoseColumn_swapped(timing) ==
    IF Contains(<<"m","o","r","n","i","n","g">>, Lower(timing)) THEN "glucose_evening" ELSE "glucose_morning"

GlucoseColumn(timing) ==
    IF Contains(<<"m","o","r","n","i","n","g">>, Lower(timing)) THEN "glucose_morning" ELSE "glucose_evening"

\* a value was heard: the number is taken; without one the flow ends with an apology
GlucoseHeard(value) ==
    IF GlucoseNumber(value).ok
    THEN pc' = "glucose_timing" /\ frame' = [frame EXCEPT !.value = value]
    ELSE Return

\* the timing is known: the cell is written, the save follows
GlucoseWrite(timing) ==
    /\ health_data' = SetCell(health_data, frame.today, GlucoseColumn(timing),
                              Cell(GlucoseNumber(frame.value)))
    /\ frame' = [frame EXCEPT !.timing = timing]
    /\ pc' = "glucose_save"

RecordGlucoseValue ==
    /\ pc = "glucose_value"
    /\ \E value \in GlucoseValueReplies :
          IF value = <<>> THEN pc' = "glucose_value_retry" /\ UNCHANGED frame
          ELSE GlucoseHeard(value)
    /\ Listened
    /\ UNCHANGED <<user_profile, health_data, diskVars>>
    /\ FlowFrame

RecordGlucoseValueRetry ==
    /\ pc = "glucose_value_retry"
    /\ \E value \in GlucoseValueReplies :
          IF value = <<>> THEN Return ELSE GlucoseHeard(value)
    /\ Listened
    /\ UNCHANGED <<user_profile, health_data, diskVars>>
    /\ FlowFrame

RecordGlucoseTiming ==
    /\ pc = "glucose_timing"
    /\ \E timing \in GlucoseTimingReplies :
          IF timing = <<>> THEN pc' = "glucose_timing_retry" /\ UNCHANGED <<frame, health_data>>
          ELSE GlucoseWrite(timing)
    /\ Listened
    /\ UNCHANGED <<user_profile, diskVars>>
    /\ FlowFrame

RecordGlucoseTimingRetry ==
    /\ pc = "glucose_timing_retry"
    /\ \E timing \in GlucoseTimingReplies :
          GlucoseWrite(IF timing = <<>> THEN <<"m","o","r","n","i","n","g">> ELSE timing)
    /\ Listened
    /\ UNCHANGED <<user_profile, diskVars>>
    /\ FlowFrame

(* record sleep *)

\* the number of a sleep reply: the pattern, else float() of the text without "hours", "hour"
SleepNumber(value) ==
    IF RegexNumber(value) # <<>> THEN PyFloat(RegexNumber(value))
    ELSE PyFloat(Strip(Remove(<<"h","o","u","r">>, Remove(<<"h","o","u","r","s">>, value))))

\* if hours > 0 and hours <= 24
SleepValid(hours) == FloatGt(hours, 0) /\ FloatLe(hours, 2400)

\* a value was heard: written if it is a number in range, else the flow ends
SleepHeard(value) ==
    IF SleepNumber(value).ok /\ SleepValid(SleepNumber(value))
    THEN /\ health_data' = SetCell(health_data, frame.today, "sleep_hours", Cell(SleepNumber(value)))
         /\ frame' = [frame EXCEPT !.value = value]
         /\ pc' = "sleep_save"
    ELSE Return /\ UNCHANGED health_data

RecordSleepValue ==
    /\ pc = "sleep_value"
    /\ \E value \in SleepValueReplies :
          IF value = <<>> THEN pc' = "sleep_value_retry" /\ UNCHANGED <<frame, health_data>>
          ELSE SleepHeard(value)
    /\ Listened
    /\ UNCHANGED <<user_profile, diskVars>>
    /\ FlowFrame

RecordSleepValueRetry ==
    /\ pc = "sleep_value_retry"
    /\ \E value \in SleepValueReplies :
          IF value = <<>> THEN Return /\ UNCHANGED health_data ELSE SleepHeard(value)
    /\ Listened
    /\ UNCHANGED <<user_profile, diskVars>>
    /\ FlowFrame

(* record medication *)

\* "yes" in response.lower() or "yeah" in response.lower() or "took them" in response.lower()
SaidTaken(response) ==
    \/ Contains(<<"y","e","s">>, Lower(response))
    \/ Contains(<<"y","e","a","h">>, Lower(response))
    \/ Contains(<<"t","o","o","k"," ","t","h","e","m">>, Lower(response))

\* the variant that compares the names as they are spelled
NamesMedication_cased(text) ==
    \E i \in 1..Len(user_profile.medications) :
        Contains(user_profile.medications[i].name, text)

\* any(med['name'].lower() in medications_taken.lower() for med in medications)
NamesMedication(text) ==
    \E i \in 1..Len(user_profile.medications) :
        Contains(Lower(user_profile.medications[i].name), Lower(text))

\* the yes/no reply is processed
MedicationHeard(response) ==
    IF SaidTaken(response)
    THEN /\ health_data' = SetCell(health_data, frame.today, "medication_adherence", <<100>>)
         /\ frame' = [frame EXCEPT !.value = response]
         /\ pc' = "med_save"
    ELSE /\ pc' = "med_missed"
         /\ frame' = [frame EXCEPT !.value = response]
         /\ UNCHANGED health_data

RecordMedicationTaken ==
    /\ pc = "med_taken"
    /\ \E response \in MedTakenReplies :
          IF response = <<>> THEN pc' = "med_taken_retry" /\ UNCHANGED <<frame, health_data>>
          ELSE MedicationHeard(response)
    /\ Listened
    /\ UNCHANGED <<user_profile, diskVars>>
    /\ FlowFrame

RecordMedicationTakenRetry ==
    /\ pc = "med_taken_retry"
    /\ \E response \in MedTakenReplies :
          IF response = <<>> THEN pc' = "med_which" /\ UNCHANGED <<frame, health_data>>
          ELSE MedicationHeard(response)
    /\ Listened
    /\ UNCHANGED <<user_profile, diskVars>>
    /\ FlowFrame

\* "Which medications did you take today?"
RecordMedicationWhich ==
    /\ pc = "med_which"
    /\ \E medications_taken \in MedWhichReplies :
          IF medications_taken # <<>> /\ NamesMedication(medications_taken)
          THEN /\ health_data' = SetCell(health_data, frame.today, "medication_adherence", <<75>>)
               /\ frame' = [frame EXCEPT !.value = medications_taken]
               /\ pc' = "med_save"
          ELSE /\ pc' = "med_abort"
               /\ frame' = [frame EXCEPT !.value = medications_taken]
               /\ UNCHANGED health_data
    /\ Listened
    /\ UNCHANGED <<user_profile, diskVars>>
    /\ FlowFrame

\* "Let's try recording your medications again later ...", return
RecordMedicationAbort ==
    /\ pc = "med_abort"
    /\ Return
    /\ UNCHANGED <<user_profile, health_data, tts, diskVars>>
    /\ FlowFrame

\* "Which medications did you miss today?": whatever the reply, partial adherence
RecordMedicationMissed ==
    /\ pc = "med_missed"
    /\ \E missed \in MedMissedReplies :
          /\ health_data' = SetCell(health_data, frame.today, "medication_adherence", <<50>>)
          /\ pc' = "med_save"
          /\ UNCHANGED frame
    /\ Listened
    /\ UNCHANGED <<user_profile, diskVars>>
    /\ FlowFrame

\* the save_user_data() that ends a record flow
RecordSave ==
    /\ pc \in {"glucose_save", "sleep_save", "med_save"}
    /\ save_user_data
    /\ Return
    /\ UNCHANGED <<user_profile, health_data, tts>>
    /\ FlowFrame

(* handle_emergency *)

\* the variant that takes silence at both questions for "no emergency"
handle_emergency_silent(response, second) ==
    LET urgent(r) == \/ Contains(<<"y","e","s">>, Lower(r))
                     \/ Contains(<<"h","e","l","p">>, Lower(r))
                     \/ Contains(<<"p","l","e","a","s","e">>, Lower(r))
    IN  IF response = <<>> THEN second # <<>> /\ urgent(second) ELSE urgent(response)

\* handle_emergency(): whether "I'll call ... for you right away." is spoken,
\* for the reply to the first question and, when there was none, the reply
\* to the second
handle_emergency(response, second) ==
    LET urgent(r) == \/ Contains(<<"y","e","s">>, Lower(r))
                     \/ Contains(<<"h","e","l","p">>, Lower(r))
                     \/ Contains(<<"p","l","e","a","s","e">>, Lower(r))
    IN  IF response = <<>>
        THEN IF second = <<>> \/ Contains(<<"y","e","s">>, Lower(second)) THEN TRUE
             ELSE urgent(second)
        ELSE urgent(response)

\* "Are you experiencing an urgent medical situation right now?"
EmergencyAsk ==
    /\ pc = "emergency_ask"
    /\ \E response \in EmergencyReplies :
          IF response = <<>> THEN pc' = "emergency_retry" /\ UNCHANGED frame
          ELSE /\ pc' = "emergency_end"
               /\ frame' = [frame EXCEPT !.value = response,
                                         !.called = handle_emergency(response, <<>>)]
    /\ Listened
    /\ UNCHANGED <<user_profile, health_data, diskVars>>
    /\ FlowFrame

\* "Do you need me to call your emergency contact?"
EmergencyRetry ==
    /\ pc = "emergency_retry"
    /\ \E response \in EmergencyReplies :
          /\ pc' = "emergency_end"
          /\ frame' = [frame EXCEPT !.value = response,
                                    !.called = handle_emergency(<<>>, response)]
    /\ Listened
    /\ UNCHANGED <<user_profile, health_data, diskVars>>
    /\ FlowFrame

\* the last sentence of handle_emergency(): the call of the contact is
\* announced and logged, or the user is asked what the concern is
EmergencyEnd ==
    /\ pc = "emergency_end"
    /\ Return
    /\ UNCHANGED <<user_profile, health_data, tts, diskVars>>
    /\ FlowFrame

(* adjust_voice *)

Min(a, b) == IF a <= b THEN a ELSE b
Max(a, b) == IF a >= b THEN a ELSE b

\* the adjustment is applied: engine property, preference; the save follows.
\* A reply that names no adjustment goes on to the follow-up listen().
VoiceHeard(adjustment) ==
    LET a == Lower(adjustment)
        rate(r) == /\ tts' = [tts EXCEPT !.rate = r]
                   /\ user_profile' = [user_profile EXCEPT !.preferences.voice_speed = (r * 1000) \div 200]
                   /\ pc' = "voice_save"
        volume(v) == /\ tts' = [tts EXCEPT !.volume = v]
                     /\ user_profile' = [user_profile EXCEPT !.preferences.volume = v]
                     /\ pc' = "voice_save"
    IN  IF Contains(<<"f","a","s","t","e","r">>, a) THEN rate(Min(DefaultTts.rate + 25, 220))
        ELSE IF Contains(<<"s","l","o","w","e","r">>, a) THEN rate(Max(DefaultTts.rate - 25, 100))
        ELSE IF Contains(<<"l","o","u","d","e","r">>, a) THEN volume(Min(DefaultTts.volume + 100, 1000))
        ELSE IF Contains(<<"q","u","i","e","t","e","r">>, a) THEN volume(Max(DefaultTts.volume - 100, 500))
        ELSE pc' = "voice_followup" /\ tts' = DefaultTts /\ UNCHANGED user_profile

AdjustVoiceAsk ==
    /\ pc = "voice_ask"
    /\ \E adjustment \in VoiceReplies :
          IF adjustment = <<>>
          THEN pc' = "voice_retry" /\ Listened /\ UNCHANGED user_profile
          ELSE VoiceHeard(adjustment)
    /\ UNCHANGED <<frame, health_data, diskVars>>
    /\ FlowFrame

AdjustVoiceRetry ==
    /\ pc = "voice_retry"
    /\ \E adjustment \in VoiceReplies :
          IF adjustment = <<>>
          THEN pc' = "loop_top" /\ Listened /\ UNCHANGED user_profile
          ELSE VoiceHeard(adjustment)
    /\ UNCHANGED <<frame, health_data, diskVars>>
    /\ FlowFrame

\* the save_user_data() after an adjustment
AdjustVoiceSave ==
    /\ pc = "voice_save"
    /\ save_user_data
    /\ pc' = "voice_followup"
    /\ UNCHANGED <<frame, user_profile, health_data, tts>>
    /\ FlowFrame

\* the follow-up listen(): "no"/"not" starts adjust_voice() again
AdjustVoiceFollowup ==
    /\ pc = "voice_followup"
    /\ \E response \in VoiceFollowupReplies :
          IF response # <<>> /\ (Contains(<<"n","o">>, Lower(response)) \/ Contains(<<"n","o","t">>, Lower(response)))
          THEN pc' = "voice_ask"
          ELSE pc' = "loop_top"
    /\ Listened
    /\ UNCHANGED <<frame, user_profile, health_data, diskVars>>
    /\ FlowFrame

----------------------------------------------------------------------------
(* update_profile: the replies *)

UpdateItemReplies ==
    CASE session = "name" -> { <<>>, <<"m","y"," ","n","a","m","e">>, <<"t","h","e"," ","w","e","a","t","h","e","r">> }
      [] session = "age" -> { <<"m","y"," ","a","g","e">>, <<"n","a","m","e">> }
      [] session = "medications" -> { <<"m","e","d","i","c","a","t","i","o","n","s">> }
      [] session = "contact" -> { <<"e","m","e","r","g","e","n","c","y"," ","c","o","n","t","a","c","t">> }
      [] OTHER -> { <<"m","y"," ","a","g","e">> }

NameReplies ==
    IF session = "name" THEN { <<>>, <<"m","a","r","y"," ","a","n","n">>, <<"o","'","n","e","i","l","-","s","m","i","t","h"," ","2">>, <<"4","2">> } ELSE { <<"m","a","r","y">> }

\* the replies to "Is that correct?"
ConfirmReplies == { <<>>, <<"y","e","s">>, <<"n","o"," ","t","h","a","t"," ","i","s"," ","w","r","o","n","g">> }

AgeReplies ==
    IF session = "age" THEN { <<>>, <<"i"," ","a","m"," ","8","0">>, <<"4","9">>, <<"5","0">>, <<"1","1","0">>, <<"1","1","1">>, <<"e","i","g","h","t","y">> } ELSE { <<"8","1">> }

MedActionReplies == { <<>>, <<"a","d","d"," ","o","n","e">>, <<"r","e","m","o","v","e"," ","o","n","e">>, <<"n","o","t","h","i","n","g">> }
MedNameReplies == { <<>>, <<"a","s","p","i","r","i","n">> }
MedDosageReplies == { <<>>, <<"8","1"," ","m","i","l","l","i","g","r","a","m","s">> }
MedFrequencyReplies == { <<>>, <<"o","n","c","e"," ","d","a","i","l","y">> }
MedTimesReplies == { <<>>, <<"i","n"," ","t","h","e"," ","m","o","r","n","i","n","g"," ","a","n","d"," ","a","t"," ","b","e","d","t","i","m","e">>, <<"a","f","t","e","r"," ","l","u","n","c","h">> }
MedRemoveReplies == { <<>>, <<"n","u","m","b","e","r"," ","2">>, <<"t","h","e"," ","l","i","s","i","n","o","p","r","i","l">>, <<"n","u","m","b","e","r"," ","7">>, <<"m","y"," ","v","i","t","a","m","i","n","s">> }
ContactNameReplies == { <<>>, <<"m","y"," ","s","o","n"," ","b","o","b">> }
ContactPhoneReplies == { <<>>, <<"5","5","5"," ","1","2","3"," ","4","5","6","7">>, <<"1"," ","5","5","5"," ","1","2","3"," ","4","5","6","7"," ","8">>, <<"5","5","5"," ","1","2","3","4">> }

\* the medications a profile holds at most: add is not asked for beyond
MaxProfileMedications == 3

----------------------------------------------------------------------------
(* update_profile *)

IsLetter(c) == InSeq(c, UpperCase) \/ InSeq(c, LowerCase)

UpperChar(c) == IF InSeq(c, LowerCase) THEN UpperCase[IndexOf(c, LowerCase)] ELSE c

\* str.title(): a letter after a non-letter is upper case, a letter after a letter lower case
Title(s) ==
    [i \in 1..Len(s) |-> IF i = 1 \/ ~IsLetter(s[i - 1]) THEN UpperChar(s[i]) ELSE LowerChar(s[i])]

\* re.sub(r'[^a-zA-Z\s\-\']', '', new_name).strip()
CleanedName(new_name) ==
    Strip(SelectSeq(new_name, LAMBDA c : IsLetter(c) \/ c \in Whitespace \/ c \in {"-", "'"}))

\* re.findall(r'\d', contact_phone)
FindDigits(s) == SelectSeq(s, IsDigit)

\* f"{digits[:3]}-{digits[3:6]}-{digits[6:10]}"
FormattedPhone(digits) ==
    SubSeq(digits, 1, 3) \o <<"-">> \o SubSeq(digits, 4, 6) \o <<"-">> \o SubSeq(digits, 7, 10)

\* "no" in confirmation.lower()
SaysNo(confirmation) == Contains(<<"n","o">>, Lower(confirmation))

\* "yes" in confirmation.lower()
SaysYes(confirmation) == Contains(<<"y","e","s">>, Lower(confirmation))

\* list.pop(i), the list that is left (i counted from 1)
Pop(s, i) == SubSeq(s, 1, i - 1) \o SubSeq(s, i + 1, Len(s))

\* what a step of update_profile that only asks leaves alone
AskFrame ==
    /\ Listened
    /\ UNCHANGED <<health_data, diskVars>>
    /\ FlowFrame

\* the item to update is heard: the branch is taken
UpdateItemHeard(update_item) ==
    LET item == Lower(update_item)
    IN  CASE Contains(<<"n","a","m","e">>, item) -> pc' = "up_name" /\ UNCHANGED frame
          [] ~Contains(<<"n","a","m","e">>, item) /\ Contains(<<"a","g","e">>, item) -> pc' = "up_age" /\ UNCHANGED frame
          [] ~Contains(<<"n","a","m","e">>, item) /\ ~Contains(<<"a","g","e">>, item) /\ Contains(<<"m","e","d","i","c","a","t","i","o","n">>, item) ->
                pc' = "up_med_action" /\ UNCHANGED frame
          [] ~Contains(<<"n","a","m","e">>, item) /\ ~Contains(<<"a","g","e">>, item) /\ ~Contains(<<"m","e","d","i","c","a","t","i","o","n">>, item)
             /\ (Contains(<<"e","m","e","r","g","e","n","c","y">>, item) \/ Contains(<<"c","o","n","t","a","c","t">>, item)) ->
                pc' = "up_contact_name" /\ UNCHANGED frame
          [] OTHER -> Return

UpdateItem ==
    /\ pc = "up_item"
    /\ \E update_item \in UpdateItemReplies :
          IF update_item = <<>> THEN pc' = "up_item_retry" /\ UNCHANGED frame
          ELSE UpdateItemHeard(update_item)
    /\ UNCHANGED user_profile
    /\ AskFrame

UpdateItemRetry ==
    /\ pc = "up_item_retry"
    /\ \E update_item \in UpdateItemReplies :
          IF update_item = <<>> THEN Return ELSE UpdateItemHeard(update_item)
    /\ UNCHANGED user_profile
    /\ AskFrame

(* name *)

\* the name is set before it is confirmed
NameHeard(new_name) ==
    IF CleanedName(new_name) # <<>>
    THEN /\ user_profile' = [user_profile EXCEPT !.name = Title(CleanedName(new_name))]
         /\ pc' = "up_name_confirm"
         /\ UNCHANGED frame
    ELSE Return /\ UNCHANGED user_profile

UpdateName ==
    /\ pc = "up_name"
    /\ \E new_name \in NameReplies :
          IF new_name = <<>> THEN pc' = "up_name_retry" /\ UNCHANGED <<frame, user_profile>>
          ELSE NameHeard(new_name)
    /\ AskFrame

UpdateNameRetry ==
    /\ pc = "up_name_retry"
    /\ \E new_name \in NameReplies :
          IF new_name = <<>> THEN Return /\ UNCHANGED user_profile ELSE NameHeard(new_name)
    /\ AskFrame

\* "Is that correct?": a reply with "no" starts update_profile() again
UpdateNameConfirm ==
    /\ pc = "up_name_confirm"
    /\ \E confirmation \in ConfirmReplies :
          /\ pc' = IF confirmation # <<>> /\ SaysNo(confirmation) THEN "up_item" ELSE "up_save"
          /\ frame' = IF Contains(<<"n","o">>, Lower(confirmation))
                       THEN [frame EXCEPT !.rejected = @ \cup {user_profile.name}]
                       ELSE [frame EXCEPT !.accepted = user_profile.name, !.confirmation = confirmation]
    /\ UNCHANGED user_profile
    /\ AskFrame

(* age *)

\* the age is set before it is confirmed
AgeHeard(age_response) ==
    LET age_match == RegexInteger(age_response)
        new_age == NatOf(age_match)
    IN  IF age_match # <<>> /\ 50 <= new_age /\ new_age <= 110
        THEN /\ user_profile' = [user_profile EXCEPT !.age = new_age]
             /\ pc' = "up_age_confirm"
             /\ UNCHANGED frame
        ELSE Return /\ UNCHANGED user_profile

UpdateAge ==
    /\ pc = "up_age"
    /\ \E age_response \in AgeReplies :
          IF age_response = <<>> THEN pc' = "up_age_retry" /\ UNCHANGED <<frame, user_profile>>
          ELSE AgeHeard(age_response)
    /\ AskFrame

UpdateAgeRetry ==
    /\ pc = "up_age_retry"
    /\ \E age_response \in AgeReplies :
          IF age_response = <<>> THEN Return /\ UNCHANGED user_profile ELSE AgeHeard(age_response)
    /\ AskFrame

\* a reply with "no" starts update_profile() again, inside the try of this branch
UpdateAgeConfirm ==
    /\ pc = "up_age_confirm"
    /\ \E confirmation \in ConfirmReplies :
          IF confirmation # <<>> /\ SaysNo(confirmation)
          THEN pc' = "up_item" /\ frame' = [frame EXCEPT !.guarded = TRUE]
          ELSE pc' = "up_age_save" /\ frame' = [frame EXCEPT !.confirmation = confirmation]
    /\ UNCHANGED user_profile
    /\ AskFrame

(* medications *)

MedActionHeard(med_action) ==
    LET action == Lower(med_action)
    IN  IF Contains(<<"a","d","d">>, action) THEN pc' = "up_med_name" /\ UNCHANGED frame
        ELSE IF Contains(<<"r","e","m","o","v","e">>, action) /\ user_profile.medications # <<>>
             THEN pc' = "up_med_remove" /\ UNCHANGED frame
        ELSE Return

\* the replies asked for while the profile can take one more medication
MedActionAsked ==
    {r \in MedActionReplies : Contains(<<"a","d","d">>, Lower(r)) => Len(user_profile.medications) < MaxProfileMedications}

UpdateMedAction ==
    /\ pc = "up_med_action"
    /\ \E med_action \in MedActionAsked :
          IF med_action = <<>> THEN pc' = "up_med_action_retry" /\ UNCHANGED frame
          ELSE MedActionHeard(med_action)
    /\ UNCHANGED user_profile
    /\ AskFrame

UpdateMedActionRetry ==
    /\ pc = "up_med_action_retry"
    /\ \E med_action \in MedActionAsked :
          IF med_action = <<>> THEN Return ELSE MedActionHeard(med_action)
    /\ UNCHANGED user_profile
    /\ AskFrame

UpdateMedName ==
    /\ pc = "up_med_name"
    /\ \E med_name \in MedNameReplies :
          IF med_name = <<>> THEN Return
          ELSE pc' = "up_med_name_confirm" /\ frame' = [frame EXCEPT !.name = med_name]
    /\ UNCHANGED user_profile
    /\ AskFrame

UpdateMedNameConfirm ==
    /\ pc = "up_med_name_confirm"
    /\ \E confirmation \in ConfirmReplies :
          pc' = IF confirmation = <<>> \/ SaysNo(confirmation) THEN "up_med_name_again" ELSE "up_med_dosage"
    /\ UNCHANGED <<frame, user_profile>>
    /\ AskFrame

UpdateMedNameAgain ==
    /\ pc = "up_med_name_again"
    /\ \E med_name \in MedNameReplies :
          IF med_name = <<>> THEN Return
          ELSE pc' = "up_med_dosage" /\ frame' = [frame EXCEPT !.name = med_name]
    /\ UNCHANGED user_profile
    /\ AskFrame

UpdateMedDosage ==
    /\ pc = "up_med_dosage"
    /\ \E med_dosage \in MedDosageReplies :
          frame' = [frame EXCEPT !.dosage = IF med_dosage = <<>> THEN <<"U","n","k","n","o","w","n"," ","d","o","s","a","g","e">> ELSE med_dosage]
    /\ pc' = "up_med_frequency"
    /\ UNCHANGED user_profile
    /\ AskFrame

UpdateMedFrequency ==
    /\ pc = "up_med_frequency"
    /\ \E med_frequency \in MedFrequencyReplies :
          frame' = [frame EXCEPT !.frequency = IF med_frequency = <<>> THEN <<"d","a","i","l","y">> ELSE med_frequency]
    /\ pc' = "up_med_times"
    /\ UNCHANGED user_profile
    /\ AskFrame

\* the variant that keeps what the reply names, with no default
MedTimes_parsed(med_times_spoken) ==
    LET said == Lower(med_times_spoken)
    IN  (IF Contains(<<"m","o","r","n","i","n","g">>, said) THEN << <<"0","8",":","0","0">> >> ELSE <<>>)
        \o (IF Contains(<<"n","o","o","n">>, said) \/ Contains(<<"a","f","t","e","r","n","o","o","n">>, said) THEN << <<"1","4",":","0","0">> >> ELSE <<>>)
        \o (IF Contains(<<"e","v","e","n","i","n","g">>, said) \/ Contains(<<"d","i","n","n","e","r">>, said) THEN << <<"1","8",":","0","0">> >> ELSE <<>>)
        \o (IF Contains(<<"n","i","g","h","t">>, said) \/ Contains(<<"b","e","d","t","i","m","e">>, said) THEN << <<"2","2",":","0","0">> >> ELSE <<>>)

\* the times of day named in the reply, 08:00 when none is
MedTimes(med_times_spoken) ==
    LET said == Lower(med_times_spoken)
        med_times ==
            (IF Contains(<<"m","o","r","n","i","n","g">>, said) THEN << <<"0","8",":","0","0">> >> ELSE <<>>)
            \o (IF Contains(<<"n","o","o","n">>, said) \/ Contains(<<"a","f","t","e","r","n","o","o","n">>, said) THEN << <<"1","4",":","0","0">> >> ELSE <<>>)
            \o (IF Contains(<<"e","v","e","n","i","n","g">>, said) \/ Contains(<<"d","i","n","n","e","r">>, said) THEN << <<"1","8",":","0","0">> >> ELSE <<>>)
            \o (IF Contains(<<"n","i","g","h","t">>, said) \/ Contains(<<"b","e","d","t","i","m","e">>, said) THEN << <<"2","2",":","0","0">> >> ELSE <<>>)
    IN  IF med_times_spoken = <<>> \/ med_times = <<>> THEN << <<"0","8",":","0","0">> >> ELSE med_times

UpdateMedTimes ==
    /\ pc = "up_med_times"
    /\ \E med_times_spoken \in MedTimesReplies :
          frame' = [frame EXCEPT !.times = MedTimes(med_times_spoken)]
    /\ pc' = "up_med_confirm"
    /\ UNCHANGED user_profile
    /\ AskFrame

\* no reply or a reply with "yes": the medication is appended
UpdateMedConfirm ==
    /\ pc = "up_med_confirm"
    /\ \E final_confirmation \in ConfirmReplies :
          IF final_confirmation = <<>> \/ SaysYes(final_confirmation)
          THEN /\ user_profile' = [user_profile EXCEPT !.medications =
                      Append(@, [name |-> frame.name, dosage |-> frame.dosage,
                                 frequency |-> frame.frequency, times |-> frame.times])]
               /\ pc' = "up_save"
               /\ frame' = [frame EXCEPT !.confirmation = final_confirmation]
          ELSE Return /\ UNCHANGED user_profile
    /\ AskFrame

\* the variant that takes the number as it is spoken for the index of pop()
remove_medication_unshifted(medications, med_to_remove) ==
    LET number_match == RegexInteger(med_to_remove)
        med_index == NatOf(number_match)
    IN  IF number_match # <<>> /\ 0 <= med_index /\ med_index < Len(medications)
        THEN [popped |-> med_index + 1, medications |-> Pop(medications, med_index + 1)]
        ELSE [popped |-> 0, medications |-> medications]

\* the variant that looks for the names only
remove_medication_byname(medications, med_to_remove) ==
    LET named == {i \in 1..Len(medications) :
                     Contains(Lower(medications[i].name), Lower(med_to_remove))}
        first == CHOOSE i \in named : \A k \in named : i <= k
    IN  IF named # {} THEN [popped |-> first, medications |-> Pop(medications, first)]
        ELSE [popped |-> 0, medications |-> medications]

\* the remove branch once a reply is there: by number when the reply holds
\* one in range, else the first medication whose name the reply holds;
\* popped is the place (counted from 1) of what was removed, 0 for nothing
remove_medication(medications, med_to_remove) ==
    LET number_match == RegexInteger(med_to_remove)
        med_index == NatOf(number_match) - 1
        named == {i \in 1..Len(medications) :
                     Contains(Lower(medications[i].name), Lower(med_to_remove))}
        first == CHOOSE i \in named : \A k \in named : i <= k
    IN  IF number_match # <<>> /\ 0 <= med_index /\ med_index < Len(medications)
        THEN [popped |-> med_index + 1, medications |-> Pop(medications, med_index + 1)]
        ELSE IF named # {} THEN [popped |-> first, medications |-> Pop(medications, first)]
        ELSE [popped |-> 0, medications |-> medications]

UpdateMedRemove ==
    /\ pc = "up_med_remove"
    /\ \E med_to_remove \in MedRemoveReplies :
          LET removal == remove_medication(user_profile.medications, med_to_remove)
          IN  IF med_to_remove = <<>> \/ removal.popped = 0 THEN Return /\ UNCHANGED user_profile
              ELSE /\ user_profile' = [user_profile EXCEPT !.medications = removal.medications]
                   /\ pc' = "up_save"
                   /\ UNCHANGED frame
    /\ AskFrame

(* emergency contact *)

UpdateContactName ==
    /\ pc = "up_contact_name"
    /\ \E contact_name \in ContactNameReplies :
          IF contact_name = <<>> THEN Return
          ELSE pc' = "up_contact_confirm" /\ frame' = [frame EXCEPT !.name = contact_name]
    /\ UNCHANGED user_profile
    /\ AskFrame

UpdateContactConfirm ==
    /\ pc = "up_contact_confirm"
    /\ \E confirmation \in ConfirmReplies :
          pc' = IF confirmation = <<>> \/ SaysNo(confirmation) THEN "up_contact_again" ELSE "up_contact_phone"
    /\ UNCHANGED <<frame, user_profile>>
    /\ AskFrame

UpdateContactAgain ==
    /\ pc = "up_contact_again"
    /\ \E contact_name \in ContactNameReplies :
          IF contact_name = <<>> THEN Return
          ELSE pc' = "up_contact_phone" /\ frame' = [frame EXCEPT !.name = contact_name]
    /\ UNCHANGED user_profile
    /\ AskFrame

UpdateContactPhone ==
    /\ pc = "up_contact_phone"
    /\ \E contact_phone \in ContactPhoneReplies :
          IF contact_phone # <<>> /\ Len(FindDigits(contact_phone)) >= 10
          THEN pc' = "up_contact_phone_confirm" /\ frame' = [frame EXCEPT !.digits = FindDigits(contact_phone)]
          ELSE Return
    /\ UNCHANGED user_profile
    /\ AskFrame

\* no reply or a reply with "yes": the contact is replaced
UpdateContactPhoneConfirm ==
    /\ pc = "up_contact_phone_confirm"
    /\ \E confirmation \in ConfirmReplies :
          IF confirmation = <<>> \/ SaysYes(confirmation)
          THEN /\ user_profile' = [user_profile EXCEPT !.emergency_contact =
                      [name |-> frame.name, phone |-> FormattedPhone(frame.digits)]]
               /\ pc' = "up_save"
               /\ frame' = [frame EXCEPT !.confirmation = confirmation]
          ELSE Return /\ UNCHANGED user_profile
    /\ AskFrame

\* the save_user_data() that ends a branch of update_profile
UpdateSave ==
    /\ pc \in {"up_save", "up_age_save"}
    /\ save_user_data
    /\ Return
    /\ UNCHANGED <<user_profile, health_data, tts>>
    /\ FlowFrame

\* where run() stands inside update_profile
ProfilePcs ==
    {"up_item", "up_item_retry", "up_name", "up_name_retry", "up_name_confirm",
     "up_age", "up_age_retry", "up_age_confirm", "up_age_save",
     "up_med_action", "up_med_action_retry", "up_med_name", "up_med_name_confirm", "up_med_name_again",
     "up_med_dosage", "up_med_frequency", "up_med_times", "up_med_confirm", "up_med_remove",
     "up_contact_name", "up_contact_confirm", "up_contact_again", "up_contact_phone",
     "up_contact_phone_confirm", "up_save"}

ProfileNext ==
    \/ UpdateItem \/ UpdateItemRetry \/ UpdateName \/ UpdateNameRetry \/ UpdateNameConfirm
    \/ UpdateAge \/ UpdateAgeRetry \/ UpdateAgeConfirm
    \/ UpdateMedAction \/ UpdateMedActionRetry \/ UpdateMedName \/ UpdateMedNameConfirm \/ UpdateMedNameAgain
    \/ UpdateMedDosage \/ UpdateMedFrequency \/ UpdateMedTimes \/ UpdateMedConfirm \/ UpdateMedRemove
    \/ UpdateContactName \/ UpdateContactConfirm \/ UpdateContactAgain \/ UpdateContactPhone
    \/ UpdateContactPhoneConfirm \/ UpdateSave

----------------------------------------------------------------------------
(* The graphical front end: the forms of the health tab.  Each handler     *)
(* runs to its end on the Tk thread.                                       *)

\* what may be typed into the glucose and the sleep entry
GuiGlucoseInputs ==
    IF session = "glucose"
    THEN { <<>>, <<"1","4","5">>, <<"1","1","0",".","5">>, <<"1","9",".","9","9">>, <<"2","0">>, <<"6","0","0">>, <<"6","0","0",".","5">>, <<"a","b","c">>, <<"n","a","n">> }
    ELSE { <<"1","4","5">> }

GuiSleepInputs ==
    IF session = "sleep"
    THEN { <<>>, <<"7",".","5">>, <<"0">>, <<"-","1">>, <<"2","4">>, <<"2","4",".","5">>, <<"a","b","c">> }
    ELSE { <<"7",".","5">> }

GuiNotes == { <<>>, <<"f","e","l","t"," ","d","i","z","z","y">> }

\* the window of the GUI is open
GuiOpen == frontend = "gui" /\ pc = "off"

\* what a form of the health tab leaves alone
GuiFrame ==
    /\ UNCHANGED <<voiceVars, disk_profile, gui_user_profile>>
    /\ UNCHANGED <<clsVars, envVars, remVars, faults, now>>

GuiStore(df) == gui_health_data' = df /\ disk_health' = df

\* ElderCareGUI.record_glucose(value, time_period)
GuiRecordGlucose ==
    /\ GuiOpen
    /\ session \in {"glucose", "daily"}
    /\ \E value \in GuiGlucoseInputs, time_period \in {"Morning", "Evening"} :
          LET glucose_value == PyFloat(value)
              today == now.day
          IN  IF value = <<>> \/ ~glucose_value.ok
                 \/ FloatLt(glucose_value, 2000) \/ FloatGt(glucose_value, 60000)
              THEN UNCHANGED <<gui_health_data, disk_health>>
              ELSE GuiStore(SetCell(EnsureToday(gui_health_data, today), today,
                                    IF time_period = "Morning" THEN "glucose_morning" ELSE "glucose_evening",
                                    Cell(glucose_value)))
    /\ GuiFrame

\* if sleep_hours < 0 or sleep_hours > 24: rejected
GuiSleepRejected(sleep_hours) == FloatLt(sleep_hours, 0) \/ FloatGt(sleep_hours, 2400)

\* ElderCareGUI.record_sleep(value)
GuiRecordSleep ==
    /\ GuiOpen
    /\ session \in {"sleep", "daily"}
    /\ \E value \in GuiSleepInputs :
          LET sleep_hours == PyFloat(value)
              today == now.day
          IN  IF value = <<>> \/ ~sleep_hours.ok \/ GuiSleepRejected(sleep_hours)
              THEN UNCHANGED <<gui_health_data, disk_health>>
              ELSE GuiStore(SetCell(EnsureToday(gui_health_data, today), today,
                                    "sleep_hours", Cell(sleep_hours)))
    /\ GuiFrame

\* the variant that records nothing taken as 0
GuiRecordMedication_zero ==
    /\ GuiOpen
    /\ session \in {"medication", "daily", "reminders"}
    /\ \E all_taken \in BOOLEAN :
          GuiStore(SetCell(EnsureToday(gui_health_data, now.day), now.day,
                           "medication_adherence", <<IF all_taken THEN 100 ELSE 0>>))
    /\ GuiFrame

\* ElderCareGUI.record_medication(all_taken)
GuiRecordMedication ==
    /\ GuiOpen
    /\ session \in {"medication", "daily", "reminders"}
    /\ \E all_taken \in BOOLEAN :
          GuiStore(SetCell(EnsureToday(gui_health_data, now.day), now.day,
                           "medication_adherence", <<IF all_taken THEN 100 ELSE 50>>))
    /\ GuiFrame

\* ElderCareGUI.save_health_notes()
GuiSaveHealthNotes ==
    /\ GuiOpen
    /\ session = "daily"
    /\ \E notes \in GuiNotes :
          IF Strip(notes) = <<>>
          THEN UNCHANGED <<gui_health_data, disk_health>>
          ELSE GuiStore(SetCell(EnsureToday(gui_health_data, now.day), now.day, "notes", <<Strip(notes)>>))
    /\ GuiFrame

(* the medications tab *)

GuiMedNames == { <<>>, <<"A","s","p","i","r","i","n">>, <<" ">> }
GuiMedDosages == { <<>>, <<"8","1","m","g">> }

\* the check boxes Morning, Noon, Evening, Bedtime as the user leaves them
GuiTimeBoxes ==
    { [morning |-> FALSE, noon |-> FALSE, evening |-> FALSE, bedtime |-> FALSE],
      [morning |-> TRUE, noon |-> FALSE, evening |-> FALSE, bedtime |-> FALSE],
      [morning |-> FALSE, noon |-> TRUE, evening |-> FALSE, bedtime |-> TRUE] }

\* the times collected from the check boxes
checked_times(boxes) ==
    (IF boxes.morning THEN << <<"0","8",":","0","0">> >> ELSE <<>>)
    \o (IF boxes.noon THEN << <<"1","2",":","0","0">> >> ELSE <<>>)
    \o (IF boxes.evening THEN << <<"1","8",":","0","0">> >> ELSE <<>>)
    \o (IF boxes.bedtime THEN << <<"2","2",":","0","0">> >> ELSE <<>>)

\* the check boxes of the edit window when it opens
boxes_of(times) ==
    [morning |-> InSeq(<<"0","8",":","0","0">>, times), noon |-> InSeq(<<"1","2",":","0","0">>, times),
     evening |-> InSeq(<<"1","8",":","0","0">>, times), bedtime |-> InSeq(<<"2","2",":","0","0">>, times)]

\* what a form of the medications tab leaves alone
GuiProfileFrame ==
    /\ UNCHANGED <<voiceVars, disk_health, gui_health_data>>
    /\ UNCHANGED <<clsVars, envVars, remVars, faults, now>>

\* the medications are set and user_profile.json is written
GuiProfileStore(medications) ==
    /\ gui_user_profile' = [gui_user_profile EXCEPT !.medications = medications]
    /\ disk_profile' = gui_user_profile'

\* for i, med in enumerate(medications): if med["name"] == med_name
FirstNamed(medications, med_name) ==
    LET named == {i \in 1..Len(medications) : medications[i].name = med_name}
    IN  CHOOSE i \in named : \A k \in named : i <= k

\* ElderCareGUI.add_medication()
GuiAddMedication ==
    /\ GuiOpen
    /\ session = "medications"
    /\ Len(gui_user_profile.medications) < MaxProfileMedications
    /\ \E typed \in GuiMedNames, dosage \in GuiMedDosages, boxes \in GuiTimeBoxes :
          LET name == Strip(typed)
              times == checked_times(boxes)
          IN  IF name = <<>> \/ times = <<>>
              THEN UNCHANGED <<gui_user_profile, disk_profile>>
              ELSE GuiProfileStore(Append(gui_user_profile.medications,
                       [name |-> name,
                        dosage |-> IF Strip(dosage) = <<>> THEN <<"N","/","A">> ELSE Strip(dosage),
                        frequency |-> <<"d","a","i","l","y">>,
                        times |-> times]))
    /\ GuiProfileFrame

\* ElderCareGUI.edit_medication() with a medication selected, and save_edit()
\* of its window
GuiEditMedication ==
    /\ GuiOpen
    /\ session = "medications"
    /\ \E selected \in 1..Len(gui_user_profile.medications) :
          LET medications == gui_user_profile.medications
              i == FirstNamed(medications, medications[selected].name)
          IN  \E typed \in GuiMedNames \cup {medications[i].name},
                 boxes \in GuiTimeBoxes \cup {boxes_of(medications[i].times)} :
                 LET new_name == Strip(typed)
                     new_times == checked_times(boxes)
                 IN  IF new_name = <<>> \/ new_times = <<>>
                     THEN UNCHANGED <<gui_user_profile, disk_profile>>
                     ELSE GuiProfileStore([medications EXCEPT ![i].name = new_name, ![i].times = new_times])
    /\ GuiProfileFrame

\* ElderCareGUI.remove_medication() with a medication selected
GuiRemoveMedication ==
    /\ GuiOpen
    /\ session = "medications"
    /\ \E selected \in 1..Len(gui_user_profile.medications), confirm \in BOOLEAN :
          LET medications == gui_user_profile.medications
              i == FirstNamed(medications, medications[selected].name)
          IN  IF ~confirm
              THEN UNCHANGED <<gui_user_profile, disk_profile>>
              ELSE GuiProfileStore(Pop(medications, i))
    /\ GuiProfileFrame

\* ElderCareGUI.mark_medication_taken(): with a medication selected in the
\* list, today's adherence is raised to 0.5 unless it is 0.5 or more already
GuiMarkMedicationTaken ==
    /\ GuiOpen
    /\ session = "medication"
    /\ \E selected_item \in BOOLEAN :
          LET today == now.day
              today_data == RowsOf(gui_health_data, today)
              first == CHOOSE i \in today_data : \A j \in today_data : i <= j
              med_adherence ==
                  IF today_data # {} /\ gui_health_data[first].medication_adherence # <<>>
                  THEN gui_health_data[first].medication_adherence[1]
                  ELSE 0
              df == EnsureToday(gui_health_data, today)
          IN  IF ~selected_item \/ gui_user_profile.medications = <<>>
              THEN UNCHANGED <<gui_health_data, disk_health>>
              ELSE GuiStore(IF med_adherence < 50
                            THEN SetCell(df, today, "medication_adherence", <<50>>)
                            ELSE df)
    /\ GuiFrame

----------------------------------------------------------------------------
(* Time.  A run is watched at a few minutes of the day, each at the two    *)
(* 30-second polls that fall in it (HH:MM:05 and HH:MM:35); the polls in   *)
(* between find nothing due and are passed over.                           *)

\* the days a run covers
MaxDay == 2

\* the minutes watched, after midnight: 07:59, 08:00, 10:00, 14:00, 20:00
TimePoints == <<479, 480, 600, 840, 1200>>

\* the minute of the day on the clock
Minute(clock) == TimePoints[clock.tp]

\* minutes from the start of day 0 to moment [day, minute]
Instant(day, minute) == day * (24 * 60) + minute

\* the clock at the next poll
NextPoll(clock) ==
    IF clock.half = 0 THEN [clock EXCEPT !.half = 1]
    ELSE IF clock.tp < Len(TimePoints) THEN [clock EXCEPT !.tp = clock.tp + 1, !.half = 0]
    ELSE [day |-> clock.day + 1, tp |-> 1, half |-> 0]

\* the last poll of the run has not come
PollsLeft == now.day < MaxDay \/ now.tp < Len(TimePoints) \/ now.half = 0

\* midnight passes (sessions in which the reminders are not followed)
NextDay ==
    /\ now.day < MaxDay
    /\ frontend \in {"voice", "gui"}
    /\ session # "reminders"
    /\ pc # "start"
    /\ now' = [now EXCEPT !.day = now.day + 1]
    /\ UNCHANGED <<voiceVars, diskVars, guiVars, clsVars, envVars, remVars, faults>>

\* hour, minute = map(int, time_str.split(":")), as minutes after midnight
ParseTime(time_str) ==
    LET colon == IndexOf(":", time_str)
    IN  60 * NatOf(SubSeq(time_str, 1, colon - 1)) + NatOf(SubSeq(time_str, colon + 1, Len(time_str)))

\* "%02d" % n
TwoDigits(n) == <<Digits[(n \div 10) + 1], Digits[(n % 10) + 1]>>

\* datetime.now().time().strftime("%H:%M")
strftime_HM(clock) == TwoDigits(Minute(clock) \div 60) \o <<":">> \o TwoDigits(Minute(clock) % 60)

----------------------------------------------------------------------------
(* The reminders of the voice assistant: the schedule module's job list    *)
(* and the thread that runs what is pending.                               *)

\* f"Time to take your {medication['name']}, {medication['dosage']}."
ReminderText(medication) ==
    <<"T","i","m","e"," ","t","o"," ","t","a","k","e"," ","y","o","u","r"," ">> \o medication.name \o <<","," ">> \o medication.dosage \o <<".">>

WaterText == <<"R","e","m","e","m","b","e","r"," ","t","o"," ","d","r","i","n","k"," ","w","a","t","e","r"," ","t","h","r","o","u","g","h","o","u","t"," ","t","h","e"," ","d","a","y",".">>
WalkText == <<"I","t","'","s"," ","a"," ","g","o","o","d"," ","t","i","m","e"," ","f","o","r"," ","a"," ","s","h","o","r","t"," ","w","a","l","k"," ","i","f"," ","y","o","u","'","r","e"," ","f","e","e","l","i","n","g"," ","u","p"," ","t","o"," ","i","t",".">>
RecordText == <<"W","o","u","l","d"," ","y","o","u"," ","l","i","k","e"," ","t","o"," ","r","e","c","o","r","d"," ","y","o","u","r"," ","h","e","a","l","t","h"," ","d","a","t","a"," ","f","o","r"," ","t","o","d","a","y","?">>

\* schedule.every().day.at(time_str).do(put text): the first run is today when
\* the time of day is still ahead, tomorrow otherwise
Job(id, time_str, text, clock) ==
    [id |-> id, at |-> time_str, text |-> text,
     next_run |-> IF ParseTime(time_str) > Minute(clock)
                  THEN Instant(clock.day, ParseTime(time_str))
                  ELSE Instant(clock.day + 1, ParseTime(time_str))]

RECURSIVE Flatten(_)
Flatten(ss) == IF ss = <<>> THEN <<>> ELSE Head(ss) \o Flatten(Tail(ss))

\* for medication in medications: for time_str in medication["times"]: one job
MedicationJobs(medications, clock) ==
    Flatten([i \in 1..Len(medications) |->
                [j \in 1..Len(medications[i].times) |->
                    Job(<<i, j>>, medications[i].times[j], ReminderText(medications[i]), clock)]])

\* the three general health reminders
FixedJobs(clock) ==
    << Job(<<0, 1>>, <<"1","0",":","0","0">>, WaterText, clock),
       Job(<<0, 2>>, <<"1","4",":","0","0">>, WalkText, clock),
       Job(<<0, 3>>, <<"2","0",":","0","0">>, RecordText, clock) >>

\* the variant that keeps the jobs there are
schedule_clear_kept(js) == js

\* schedule.clear()
schedule_clear(js) == <<>>

\* _schedule_reminders(): the job list it leaves
schedule_reminders(js, profile, clock) ==
    schedule_clear(js) \o MedicationJobs(profile.medications, clock) \o FixedJobs(clock)

\* run_pending(): the jobs whose time has come, sorted by next_run (the sort is stable)
RECURSIVE SortedByNextRun(_, _)
SortedByNextRun(js, indices) ==
    IF indices = {} THEN <<>>
    ELSE LET first == CHOOSE i \in indices :
                         \A k \in indices : \/ js[i].next_run < js[k].next_run
                                            \/ (js[i].next_run = js[k].next_run /\ i <= k)
         IN  <<first>> \o SortedByNextRun(js, indices \ {first})

Runnable(js, clock) ==
    SortedByNextRun(js, {i \in 1..Len(js) : Instant(clock.day, Minute(clock)) >= js[i].next_run})

\* a job has run: its next run is tomorrow at its time of day
Rescheduled(job, clock) ==
    [job EXCEPT !.next_run = Instant(clock.day + 1, ParseTime(job.at))]

\* what is logged for a put
Logged(id, at, text, clock) == [id |-> id, day |-> clock.day, at |-> at, text |-> text]

\* the variant in which the thread speaks the reminders itself
put_spoken(texts) ==
    /\ spoken' = spoken \o texts
    /\ UNCHANGED response_queue

\* self.response_queue.put(text), for the jobs that ran
put(texts) ==
    /\ response_queue' = response_queue \o texts
    /\ UNCHANGED spoken

\* the variant in which a job also opens today's row of the store
do_recording(texts) ==
    /\ put(texts)
    /\ health_data' = IF texts = <<>> THEN health_data ELSE EnsureToday_always(health_data, now.day)
    /\ UNCHANGED <<user_profile, tts, diskVars>>

\* .do(lambda text=reminder_text: self.response_queue.put(text)): what the
\* jobs that ran do, all of it
do(texts) ==
    /\ put(texts)
    /\ UNCHANGED <<user_profile, health_data, tts, diskVars>>

\* run(): _schedule_reminders(), the reminder thread is started, the greeting
RunStart ==
    /\ pc = "start"
    /\ jobs' = schedule_reminders(jobs, user_profile, now)
    /\ pc' = "loop_top"
    /\ UNCHANGED <<frame, consecutive_failures, empty_run, user_profile, health_data, tts, response_queue, spoken>>
    /\ UNCHANGED <<reminder_queue, enqueued, faults>>
    /\ UNCHANGED <<diskVars, guiVars, clsVars, envVars, now>>

\* _reminder_thread(): time.sleep(30), then schedule.run_pending()
ReminderThread ==
    /\ frontend = "voice"
    /\ session = "reminders"
    /\ pc \notin {"start", "done", "raised"}
    /\ PollsLeft
    /\ now' = NextPoll(now)
    /\ LET due == Runnable(jobs, now')
           ran == {due[k] : k \in 1..Len(due)}
       IN  /\ do([k \in 1..Len(due) |-> jobs[due[k]].text])
           /\ enqueued' = enqueued \o [k \in 1..Len(due) |->
                               Logged(jobs[due[k]].id, jobs[due[k]].at, jobs[due[k]].text, now')]
           /\ jobs' = [i \in 1..Len(jobs) |-> IF i \in ran THEN Rescheduled(jobs[i], now') ELSE jobs[i]]
    /\ UNCHANGED <<pc, frame, consecutive_failures, empty_run>>
    /\ UNCHANGED <<reminder_queue, faults>>
    /\ UNCHANGED <<guiVars, clsVars, envVars>>

----------------------------------------------------------------------------
(* The reminders of the graphical front end: the thread of                 *)
(* setup_reminder_thread.  The schedule module is not used there: run()    *)
(* is never called, so the assistant's response_queue stays empty.         *)

\* check_time_based_reminders(): the medication times that read as the current minute
TimeMatches(medications, clock) ==
    Flatten([i \in 1..Len(medications) |->
                LET hits == SelectSeq([j \in 1..Len(medications[i].times) |-> j],
                                      LAMBDA j : medications[i].times[j] = strftime_HM(clock))
                IN  [k \in 1..Len(hits) |->
                        Logged(<<i, hits[k]>>, medications[i].times[hits[k]],
                               ReminderText(medications[i]), clock)]])

\* check_reminders(): threading.Event().wait(30), then one pass of the loop:
\* one reminder is moved over from the assistant's queue, then the time check
GuiCheckReminders ==
    /\ GuiOpen
    /\ session = "reminders"
    /\ PollsLeft
    /\ now' = NextPoll(now)
    /\ LET moved == IF response_queue # <<>> THEN <<Head(response_queue)>> ELSE <<>>
           hits == TimeMatches(gui_user_profile.medications, now')
       IN  /\ response_queue' = IF response_queue # <<>> THEN Tail(response_queue) ELSE response_queue
           /\ reminder_queue' = reminder_queue \o moved \o [k \in 1..Len(hits) |-> hits[k].text]
           /\ enqueued' = enqueued \o hits
    /\ UNCHANGED <<pc, frame, consecutive_failures, empty_run, user_profile, health_data, tts, spoken>>
    /\ UNCHANGED <<jobs, faults>>
    /\ UNCHANGED <<diskVars, guiVars, clsVars, envVars>>

----------------------------------------------------------------------------
(* The initial states: the files as earlier runs left them, loaded by the  *)
(* constructor of the front end that runs.                                 *)

\* a row recorded on an earlier day, and one recorded earlier today
EarlierRow == [NewRow(0) EXCEPT !.glucose_morning = <<13000>>, !.medication_adherence = <<100>>]
TodayRow == [NewRow(1) EXCEPT !.glucose_morning = <<9900>>]

\* health_data.csv when the program starts
InitialStores == { <<>>, <<EarlierRow>>, <<EarlierRow, TodayRow>> }

ClassifierOff == cls_input = <<>> /\ cls_output = "off" /\ call = <<>> /\ result = [done |-> FALSE]

ProgramInit ==
    /\ session \in Sessions
    /\ now = [day |-> 1, tp |-> 1, half |-> 0]
    /\ disk_profile = DefaultProfile
    /\ disk_health \in (IF session \in {"glucose", "sleep", "medication", "daily"}
                        THEN InitialStores ELSE {<<EarlierRow>>})
    /\ user_profile = disk_profile
    /\ health_data = disk_health
    /\ gui_user_profile = disk_profile
    /\ gui_health_data = disk_health
    /\ frame = NoFrame
    /\ consecutive_failures = 0
    /\ empty_run = 0
    /\ tts = DefaultTts
    /\ response_queue = <<>>
    /\ spoken = <<>>
    /\ jobs = <<>>
    /\ reminder_queue = <<>>
    /\ enqueued = <<>>
    /\ faults = 0

Init ==
    /\ ClassifierOff
    /\ frontend \in {"voice", "gui"}
    /\ pc = IF frontend = "voice" THEN "start" ELSE "off"
    /\ ProgramInit

VoiceNext ==
    \/ RunStart \/ ReminderThread
    \/ CheckReminders \/ RunListen \/ StalledListen \/ Resume \/ ExitSave
    \/ ProcessWithGroq \/ GroqSpeak
    \/ RecordGlucoseValue \/ RecordGlucoseValueRetry \/ RecordGlucoseTiming \/ RecordGlucoseTimingRetry
    \/ RecordSleepValue \/ RecordSleepValueRetry
    \/ RecordMedicationTaken \/ RecordMedicationTakenRetry \/ RecordMedicationWhich \/ RecordMedicationAbort
    \/ RecordMedicationMissed
    \/ RecordSave
    \/ EmergencyAsk \/ EmergencyRetry \/ EmergencyEnd
    \/ AdjustVoiceAsk \/ AdjustVoiceRetry \/ AdjustVoiceSave \/ AdjustVoiceFollowup

\* ElderCareGUI.on_closing(): the GUI writes its table and its profile, then
\* the assistant's save_user_data() writes the assistant's own over them
GuiOnClosing ==
    /\ GuiOpen
    /\ save_user_data
    /\ pc' = "closed"
    /\ UNCHANGED <<frame, consecutive_failures, empty_run, user_profile, health_data, tts, response_queue, spoken>>
    /\ UNCHANGED <<guiVars, clsVars, envVars, remVars, faults, now>>

GuiNext ==
    \/ GuiRecordGlucose \/ GuiRecordSleep \/ GuiRecordMedication \/ GuiSaveHealthNotes
    \/ GuiMarkMedicationTaken \/ GuiCheckReminders
    \/ GuiAddMedication \/ GuiEditMedication \/ GuiRemoveMedication
    \/ GuiOnClosing

Next == VoiceNext \/ ProfileNext \/ GuiNext \/ NextDay

Spec == Init /\ [][Next]_vars

\* the runs in which the user is asked to confirm: a new name, a new age, a
\* changed voice
RetryInit == Init /\ frontend = "voice" /\ session \in {"name", "age", "other"}

\* the steps of the main thread in these runs
RetryNext ==
    \/ RunStart \/ CheckReminders \/ RunListen \/ StalledListen \/ Resume \/ ExitSave
    \/ ProcessWithGroq \/ GroqSpeak
    \/ AdjustVoiceAsk \/ AdjustVoiceRetry \/ AdjustVoiceSave \/ AdjustVoiceFollowup
    \/ UpdateItem \/ UpdateItemRetry \/ UpdateName \/ UpdateNameRetry \/ UpdateNameConfirm
    \/ UpdateAge \/ UpdateAgeRetry \/ UpdateAgeConfirm \/ UpdateSave

\* the main thread is not held up for ever: listen() comes back within its
\* timeouts, with a reply or with None, and speak() comes back
SpecLive == RetryInit /\ [][RetryNext]_vars /\ WF_vars(RetryNext)

----------------------------------------------------------------------------
(* The delivery of the reminders while run() goes round its loop: the      *)
(* voice assistant in a session in which the scheduler thread puts         *)
(* reminders on the queue and the user talks to the assistant.             *)

DeliverInit == Init /\ frontend = "voice" /\ session = "reminders"

\* the steps of the main thread in these runs
DeliverMain ==
    \/ RunStart \/ CheckReminders \/ RunListen
    \/ RecordSleepValue \/ RecordSave \/ EmergencyAsk \/ EmergencyEnd
    \/ AdjustVoiceAsk \/ AdjustVoiceSave \/ AdjustVoiceFollowup
    \/ UpdateItem \/ UpdateAge \/ UpdateAgeConfirm \/ UpdateSave

DeliverNext == DeliverMain \/ ReminderThread

\* the main thread is not held up at the top of the loop: get_nowait() does
\* not block and speak() comes back.  Whether listen() and the flows come
\* back is left to the property that needs it.
SpecDeliver == DeliverInit /\ [][DeliverNext]_vars /\ WF_vars(CheckReminders)

----------------------------------------------------------------------------
(* Interrupts and I/O errors.  Ctrl-C raises KeyboardInterrupt wherever    *)
(* the main thread stands; open() and to_csv() raise OSError when the file *)
(* cannot be written.                                                      *)

\* the faults one run is given
MaxFaults == 2

\* a run is given a fault; the runs that follow the reminders are left without
FaultAllowed == faults < MaxFaults /\ session # "reminders"

\* where run() stands inside its try block
TryPcs ==
    {"loop_top", "loop_listen", "stalled", "paused", "exit_save", "groq_call", "groq_speak",
     "glucose_value", "glucose_value_retry", "glucose_timing", "glucose_timing_retry", "glucose_save",
     "sleep_value", "sleep_value_retry", "sleep_save",
     "med_taken", "med_taken_retry", "med_which", "med_abort", "med_missed", "med_save",
     "emergency_ask", "emergency_retry", "emergency_end",
     "voice_ask", "voice_retry", "voice_save", "voice_followup"} \cup ProfilePcs

\* what a fault leaves alone besides pc, frame, the disk and the count
FaultFrame ==
    /\ UNCHANGED <<consecutive_failures, empty_run, user_profile, health_data, tts, response_queue, spoken>>
    /\ UNCHANGED <<guiVars, clsVars, envVars, remVars, now>>

\* Ctrl-C during the greeting, before the try block: run() is left at once
InterruptGreeting ==
    /\ pc = "start"
    /\ FaultAllowed
    /\ jobs' = schedule_reminders(jobs, user_profile, now)
    /\ pc' = "raised"
    /\ faults' = faults + 1
    /\ UNCHANGED <<frame, consecutive_failures, empty_run, user_profile, health_data, tts, response_queue, spoken>>
    /\ UNCHANGED <<reminder_queue, enqueued>>
    /\ UNCHANGED <<diskVars, guiVars, clsVars, envVars, now>>

\* Ctrl-C inside the try block: control goes to except KeyboardInterrupt
KeyboardInterrupt ==
    /\ pc \in TryPcs
    /\ FaultAllowed
    /\ pc' = "kbd_handler"
    /\ frame' = NoFrame
    /\ faults' = faults + 1
    /\ UNCHANGED diskVars
    /\ FaultFrame

\* save_user_data() raises: nothing is written, or the profile only
SaveError ==
    /\ pc \in {"exit_save", "glucose_save", "sleep_save", "med_save", "voice_save",
               "up_save", "up_age_save", "kbd_handler", "error_handler"}
    /\ FaultAllowed
    /\ \E written \in {"nothing", "profile"} :
          /\ disk_profile' = IF written = "profile" THEN user_profile ELSE disk_profile
          /\ UNCHANGED disk_health
    /\ pc' = CASE pc \in {"glucose_save", "sleep_save"} -> "loop_top" \* caught inside record_health_data
               [] pc = "up_age_save" \/ (pc = "up_save" /\ frame.guarded) -> "loop_top" \* caught inside update_profile
               [] pc \in {"kbd_handler", "error_handler"} -> "raised"  \* raised inside a handler of run()
               [] OTHER -> "error_handler"                             \* caught by except Exception of run()
    /\ frame' = NoFrame
    /\ faults' = faults + 1
    /\ FaultFrame

\* Ctrl-C while a handler of run() speaks: run() is left before its save
HandlerInterrupted ==
    /\ pc \in {"kbd_handler", "error_handler"}
    /\ FaultAllowed
    /\ pc' = "raised"
    /\ faults' = faults + 1
    /\ UNCHANGED <<frame, diskVars>>
    /\ FaultFrame

\* the handlers of run(): the message, then save_user_data()
HandlerSave ==
    /\ pc \in {"kbd_handler", "error_handler"}
    /\ save_user_data
    /\ pc' = "done"
    /\ UNCHANGED <<frame, faults>>
    /\ FaultFrame

FaultNext ==
    \/ InterruptGreeting \/ KeyboardInterrupt \/ SaveError \/ HandlerInterrupted \/ HandlerSave

SpecFault == Init /\ [][Next \/ FaultNext]_vars

----------------------------------------------------------------------------
(* The schedule on its own: _schedule_reminders() called again and again,  *)
(* the medications edited in between.                                       *)

\* the medications a profile of this part holds at most
MaxMedications == 2

Aspirin ==
    [name |-> <<"A","s","p","i","r","i","n">>, dosage |-> <<"8","1","m","g">>, frequency |-> <<"d","a","i","l","y">>,
     times |-> << <<"0","8",":","0","0">>, <<"1","4",":","0","0">>, <<"1","8",":","0","0">>, <<"2","2",":","0","0">> >>]

MedicationPool == { DefaultProfile.medications[1], DefaultProfile.medications[2], Aspirin }

MedicationLists == UNION { [1..n -> MedicationPool] : n \in 0..MaxMedications }

ScheduleInit ==
    /\ ClassifierOff
    /\ frontend = "voice"
    /\ session = "schedule"
    /\ pc = "start"
    /\ now \in {[day |-> 1, tp |-> tp, half |-> 0] : tp \in 1..Len(TimePoints)}
    /\ disk_profile = DefaultProfile
    /\ disk_health = <<>>
    /\ user_profile = disk_profile
    /\ health_data = disk_health
    /\ gui_user_profile = disk_profile
    /\ gui_health_data = disk_health
    /\ frame = NoFrame
    /\ consecutive_failures = 0
    /\ empty_run = 0
    /\ tts = DefaultTts
    /\ response_queue = <<>>
    /\ spoken = <<>>
    /\ jobs = <<>>
    /\ reminder_queue = <<>>
    /\ enqueued = <<>>
    /\ faults = 0

\* a call of _schedule_reminders()
Reschedule ==
    /\ session = "schedule"
    /\ jobs' = schedule_reminders(jobs, user_profile, now)
    /\ pc' = "scheduled"
    /\ UNCHANGED <<frame, consecutive_failures, empty_run, user_profile, health_data, tts, response_queue, spoken>>
    /\ UNCHANGED <<reminder_queue, enqueued, faults>>
    /\ UNCHANGED <<diskVars, guiVars, clsVars, envVars, now>>

\* the medications of the profile change while the program runs
EditMedications ==
    /\ session = "schedule"
    /\ pc \in {"scheduled", "edited"}
    /\ \E medications \in MedicationLists \ {user_profile.medications} :
          user_profile' = [user_profile EXCEPT !.medications = medications]
    /\ pc' = "edited"
    /\ UNCHANGED <<frame, consecutive_failures, empty_run, health_data, tts, response_queue, spoken>>
    /\ UNCHANGED <<diskVars, guiVars, clsVars, envVars, remVars, faults, now>>

SpecSchedule == ScheduleInit /\ [][Reschedule \/ EditMedications]_vars

----------------------------------------------------------------------------
(* The classifier on its own: every utterance of ClassifierInputs is       *)
(* classified once.                                                        *)

AllKeywords ==
    UNION {{command_keywords[i].keywords[k] : k \in 1..Len(command_keywords[i].keywords)} :
              i \in 1..Len(command_keywords)}

\* text that holds no trigger phrase
OtherTexts == { <<"g","o","o","d"," ","m","o","r","n","i","n","g">>, <<"t","e","l","l"," ","m","e"," ","a"," ","s","t","o","r","y">>, <<"w","h","a","t"," ","i","s"," ","t","h","e"," ","w","e","a","t","h","e","r">>, <<"h","e","l">>, <<" ">> }

LeadIns == { <<>>, <<"p","l","e","a","s","e"," ">>, <<"i"," ","w","a","n","t"," ","t","o"," ">>, <<" "," ">> }
Trailers == { <<>>, <<" ","p","l","e","a","s","e">>, <<" ","n","o","w">>, <<"s">>, <<" ">> }

\* str.capitalize()-like spelling a typed line or a recogniser may give
UpperFirst(s) ==
    IF s = <<>> \/ ~InSeq(s[1], LowerCase) THEN s
    ELSE <<UpperCase[IndexOf(s[1], LowerCase)]>> \o Tail(s)

ClassifierInputs ==
    LET base == {a \o w \o b : a \in LeadIns, w \in AllKeywords \cup OtherTexts, b \in Trailers}
    IN  base \cup {UpperFirst(u) : u \in base} \cup {<<>>}

ClassifyInit ==
    /\ cls_input \in ClassifierInputs
    /\ cls_output = "pending"
    /\ call = <<>>
    /\ result = [done |-> FALSE]
    /\ frontend = "none"
    /\ pc = "off"
    /\ session = "other"
    /\ now = [day |-> 1, tp |-> 1, half |-> 0]
    /\ disk_profile = DefaultProfile
    /\ disk_health = <<>>
    /\ user_profile = disk_profile
    /\ health_data = disk_health
    /\ gui_user_profile = disk_profile
    /\ gui_health_data = disk_health
    /\ frame = NoFrame
    /\ consecutive_failures = 0
    /\ empty_run = 0
    /\ tts = DefaultTts
    /\ response_queue = <<>>
    /\ spoken = <<>>
    /\ jobs = <<>>
    /\ reminder_queue = <<>>
    /\ enqueued = <<>>
    /\ faults = 0

Classify ==
    /\ cls_output = "pending"
    /\ cls_output' = identify_command(cls_input)
    /\ UNCHANGED <<cls_input, call, result, envVars, remVars, faults, now, voiceVars, diskVars, guiVars>>

SpecClassify == ClassifyInit /\ [][Classify]_vars

----------------------------------------------------------------------------
(* The removal of a medication on its own: the remove branch of            *)
(* update_profile from the reply onwards, for the lists a profile may hold *)
(* and the replies a user may give.                                        *)

\* the medications of a profile of this part, at most
MaxRemovalList == 3

\* a medication whose name lies within another name
Aspirin_Plus ==
    [Aspirin EXCEPT !.name = <<"A","s","p","i","r","i","n"," ","P","l","u","s">>]

RemovalLists ==
    UNION { [1..n -> MedicationPool \cup {Aspirin_Plus}] : n \in 1..MaxRemovalList }

RemovalReplies ==
    { <<"2">>, <<"n","u","m","b","e","r"," ","1">>, <<"N","u","m","b","e","r"," ","3"," ","p","l","e","a","s","e">>, <<"n","u","m","b","e","r"," ","4">>, <<"n","u","m","b","e","r"," ","7">>, <<"0">>,
      <<"t","h","e"," ","l","i","s","i","n","o","p","r","i","l">>, <<"M","E","T","F","O","R","M","I","N">>, <<"l","i","s","i","n","o","p","r","i","l"," ","a","n","d"," ","m","e","t","f","o","r","m","i","n">>, <<"a","s","p","i","r","i","n",","," ","t","h","e"," ","8","1"," ","o","n","e">>,
      <<"a","s","p","i","r","i","n"," ","p","l","u","s">>, <<"m","y"," ","v","i","t","a","m","i","n","s">>, <<"r","e","m","o","v","e"," ","n","u","m","b","e","r"," ","2"," ","t","h","e"," ","a","s","p","i","r","i","n">> }

RemoveInit ==
    /\ call \in [medications : RemovalLists, med_to_remove : RemovalReplies]
    /\ result = [done |-> FALSE]
    /\ cls_input = <<>>
    /\ cls_output = "off"
    /\ frontend = "none"
    /\ pc = "off"
    /\ session = "other"
    /\ now = [day |-> 1, tp |-> 1, half |-> 0]
    /\ disk_profile = DefaultProfile
    /\ disk_health = <<>>
    /\ user_profile = disk_profile
    /\ health_data = disk_health
    /\ gui_user_profile = disk_profile
    /\ gui_health_data = disk_health
    /\ frame = NoFrame
    /\ consecutive_failures = 0
    /\ empty_run = 0
    /\ tts = DefaultTts
    /\ response_queue = <<>>
    /\ spoken = <<>>
    /\ jobs = <<>>
    /\ reminder_queue = <<>>
    /\ enqueued = <<>>
    /\ faults = 0

RemoveCalled ==
    /\ ~result.done
    /\ result' = [done |-> TRUE, value |-> remove_medication(call.medications, call.med_to_remove)]
    /\ UNCHANGED <<cls_input, cls_output, call, envVars, remVars, faults, now, voiceVars, diskVars, guiVars>>

SpecRemove == RemoveInit /\ [][RemoveCalled]_vars

----------------------------------------------------------------------------
(* analyze_health_data on its own.  A sentence of the result is kept as    *)
(* [metric, kind, number]: the words that make it and the number that      *)
(* the format puts into it.                                                 *)

\* self.health_data.tail(7)
tail(df, n) == SubSeq(df, Max(1, Len(df) - n + 1), Len(df))

\* the values of a column that are not NaN
NotNa(df, column) ==
    Flatten([i \in 1..Len(df) |-> df[i][column]])

\* Series.sum()
RECURSIVE SeqSum(_)
SeqSum(values) == IF values = <<>> THEN 0 ELSE Head(values) + SeqSum(Tail(values))

\* format(p / q, '.0f') for p >= 0: the nearest integer, a half goes to the even one
RoundHalfEven(p, q) ==
    LET floor == p \div q
        rest == p % q
    IN  IF 2 * rest > q \/ (2 * rest = q /\ floor % 2 = 1) THEN floor + 1 ELSE floor

Sentence(metric, kind, number) == [metric |-> metric, kind |-> kind, number |-> number]

NotEnoughData == << Sentence("none", "not enough data", 0) >>
InsufficientData == << Sentence("none", "insufficient data", 0) >>

\* the variant that takes 180 for high already
GlucoseInsight_inclusive(recent_data) ==
    LET values == NotNa(recent_data, "glucose_morning")
        total == SeqSum(values)
        count == Len(values)
        shown == RoundHalfEven(total, 100 * count)
    IN  IF count = 0 THEN <<>>
        ELSE IF total >= 18000 * count THEN << Sentence("glucose", "running high", shown) >>
        ELSE IF total < 7000 * count THEN << Sentence("glucose", "running low", shown) >>
        ELSE << Sentence("glucose", "good range", shown) >>

\* avg_morning = recent_data['glucose_morning'].mean(), in hundredths total / count
GlucoseInsight(recent_data) ==
    LET values == NotNa(recent_data, "glucose_morning")
        total == SeqSum(values)
        count == Len(values)
        shown == RoundHalfEven(total, 100 * count)
    IN  IF count = 0 THEN <<>>
        ELSE IF total > 18000 * count THEN << Sentence("glucose", "running high", shown) >>
        ELSE IF total < 7000 * count THEN << Sentence("glucose", "running low", shown) >>
        ELSE << Sentence("glucose", "good range", shown) >>

\* adherence_rate = recent_data['medication_adherence'].mean() * 100
AdherenceInsight(recent_data) ==
    LET values == NotNa(recent_data, "medication_adherence")
        total == SeqSum(values)
        count == Len(values)
        shown == RoundHalfEven(total, count)
    IN  IF count = 0 THEN <<>>
        ELSE IF total < 80 * count THEN << Sentence("adherence", "improving", shown) >>
        ELSE << Sentence("adherence", "great job", shown) >>

\* avg_sleep = recent_data['sleep_hours'].mean(); the number is in tenths
SleepInsight(recent_data) ==
    LET values == NotNa(recent_data, "sleep_hours")
        total == SeqSum(values)
        count == Len(values)
        shown == RoundHalfEven(total, 10 * count)
    IN  IF count = 0 THEN <<>>
        ELSE IF total < 600 * count THEN << Sentence("sleep", "less than recommended", shown) >>
        ELSE << Sentence("sleep", "good", shown) >>

\* the variant without the threshold of three records
analyze_health_data_always(df) ==
    LET recent_data == tail(df, 7)
        insights == GlucoseInsight(recent_data) \o AdherenceInsight(recent_data) \o SleepInsight(recent_data)
    IN  IF insights = <<>> THEN InsufficientData ELSE insights

\* the variant that reads the whole table
analyze_health_data_whole(df) ==
    LET insights == GlucoseInsight(df) \o AdherenceInsight(df) \o SleepInsight(df)
    IN  IF Len(df) < 3 THEN NotEnoughData
        ELSE IF insights = <<>> THEN InsufficientData ELSE insights

\* the variant that puts sleep first
analyze_health_data_sleepfirst(df) ==
    LET recent_data == tail(df, 7)
        insights == SleepInsight(recent_data) \o GlucoseInsight(recent_data) \o AdherenceInsight(recent_data)
    IN  IF Len(df) < 3 THEN NotEnoughData
        ELSE IF insights = <<>> THEN InsufficientData ELSE insights

\* analyze_health_data(): the sentences that " ".join(insights) puts together
analyze_health_data(df) ==
    LET recent_data == tail(df, 7)
        insights == GlucoseInsight(recent_data) \o AdherenceInsight(recent_data) \o SleepInsight(recent_data)
    IN  IF Len(df) < 3 THEN NotEnoughData
        ELSE IF insights = <<>> THEN InsufficientData ELSE insights

\* the records of a table of this part, at most, the long tables aside
MaxRecords == 4

\* what a day may have recorded: glucose_morning, medication_adherence, sleep_hours
DayPool ==
    { [glucose_morning |-> <<>>, medication_adherence |-> <<>>, sleep_hours |-> <<>>],
      [glucose_morning |-> <<19000>>, medication_adherence |-> <<100>>, sleep_hours |-> <<800>>],
      [glucose_morning |-> <<19500>>, medication_adherence |-> <<>>, sleep_hours |-> <<550>>],
      [glucose_morning |-> <<20000>>, medication_adherence |-> <<50>>, sleep_hours |-> <<>>],
      [glucose_morning |-> <<18000>>, medication_adherence |-> <<75>>, sleep_hours |-> <<600>>],
      [glucose_morning |-> <<18001>>, medication_adherence |-> <<>>, sleep_hours |-> <<>>],
      [glucose_morning |-> <<7000>>, medication_adherence |-> <<>>, sleep_hours |-> <<>>],
      [glucose_morning |-> <<6950>>, medication_adherence |-> <<>>, sleep_hours |-> <<575>>] }

\* the table with these days, one row a day
TableOf(days) ==
    [i \in 1..Len(days) |->
        [NewRow(i) EXCEPT !.glucose_morning = days[i].glucose_morning,
                          !.medication_adherence = days[i].medication_adherence,
                          !.sleep_hours = days[i].sleep_hours]]

\* six days with nothing but a morning glucose of 18000, of which a table of eight rows keeps five in its last seven
QuietDays == [i \in 1..6 |-> [glucose_morning |-> <<18000>>, medication_adherence |-> <<>>, sleep_hours |-> <<>>]]
EmptyDays == [i \in 1..6 |-> [glucose_morning |-> <<>>, medication_adherence |-> <<>>, sleep_hours |-> <<>>]]

AnalyzedTables ==
    { TableOf(days) : days \in UNION { [1..n -> DayPool] : n \in 0..MaxRecords } }
    \cup { TableOf(first \o pad \o last) : first \in [1..1 -> DayPool], last \in [1..1 -> DayPool],
                                            pad \in {QuietDays, EmptyDays} }

AnalyzeInit ==
    /\ call \in [health_data : AnalyzedTables]
    /\ result = [done |-> FALSE]
    /\ cls_input = <<>>
    /\ cls_output = "off"
    /\ frontend = "none"
    /\ pc = "off"
    /\ session = "other"
    /\ now = [day |-> 1, tp |-> 1, half |-> 0]
    /\ disk_profile = DefaultProfile
    /\ disk_health = <<>>
    /\ user_profile = disk_profile
    /\ health_data = disk_health
    /\ gui_user_profile = disk_profile
    /\ gui_health_data = disk_health
    /\ frame = NoFrame
    /\ consecutive_failures = 0
    /\ empty_run = 0
    /\ tts = DefaultTts
    /\ response_queue = <<>>
    /\ spoken = <<>>
    /\ jobs = <<>>
    /\ reminder_queue = <<>>
    /\ enqueued = <<>>
    /\ faults = 0

AnalyzeCalled ==
    /\ ~result.done
    /\ result' = [done |-> TRUE, value |-> analyze_health_data(call.health_data)]
    /\ UNCHANGED <<cls_input, cls_output, call, envVars, remVars, faults, now, voiceVars, diskVars, guiVars>>

SpecAnalyze == AnalyzeInit /\ [][AnalyzeCalled]_vars

----------------------------------------------------------------------------
(* listen() on its own: the loop over the attempts, whatever the          *)
(* microphone and the recognizers do.                                      *)

\* the program at rest around a function that is called on its own
AtRest ==
    /\ cls_input = <<>>
    /\ cls_output = "off"
    /\ frontend = "none"
    /\ pc = "off"
    /\ session = "other"
    /\ now = [day |-> 1, tp |-> 1, half |-> 0]
    /\ disk_profile = DefaultProfile
    /\ disk_health = <<>>
    /\ user_profile = disk_profile
    /\ health_data = disk_health
    /\ gui_user_profile = disk_profile
    /\ gui_health_data = disk_health
    /\ frame = NoFrame
    /\ consecutive_failures = 0
    /\ empty_run = 0
    /\ tts = DefaultTts
    /\ response_queue = <<>>
    /\ spoken = <<>>
    /\ jobs = <<>>
    /\ reminder_queue = <<>>
    /\ enqueued = <<>>
    /\ faults = 0

\* max_attempts of listen()
max_attempts == 3

\* the passes of the while loop that are followed, at most
MaxPasses == 8

\* what recognize_google and recognize_sphinx may hand back as a text
RecognizedTexts == { <<"H","e","l","p">>, <<"R","e","c","o","r","d"," ","G","l","u","c","o","s","e">>, <<"y","e","s">>, <<"G","o","o","d"," ","m","o","r","n","i","n","g">> }

\* how one pass of the loop may go: the microphone, recognize_google, recognize_sphinx
RecognizerOutcomes ==
    [kind : {"google text", "sphinx text"}, text : RecognizedTexts]
    \cup [kind : {"google empty text", "UnknownValueError", "sphinx empty text", "sphinx error",
                  "microphone error", "WaitTimeoutError"}, text : {<<>>}]

\* the variant that counts a pass without a text as an attempt
attempts_after_counting(attempts, outcome) ==
    IF outcome.kind \in {"google text", "sphinx text"} THEN attempts ELSE attempts + 1

\* attempts after one pass of the loop that did not return
attempts_after(attempts, outcome) ==
    IF outcome.kind \in {"UnknownValueError", "sphinx error", "microphone error", "WaitTimeoutError"}
    THEN attempts + 1
    ELSE attempts   \* `if text:` is false and no exception: nothing is counted

ListenInit ==
    /\ call = [attempts |-> 0, passes |-> 0]
    /\ result = [done |-> FALSE]
    /\ AtRest

\* one pass of `while attempts < max_attempts`
ListenPass ==
    /\ ~result.done
    /\ call.attempts < max_attempts
    /\ call.passes < MaxPasses
    /\ \E outcome \in RecognizerOutcomes :
          IF outcome.kind \in {"google text", "sphinx text"}
          THEN /\ result' = [done |-> TRUE, value |-> Lower(outcome.text)]
               /\ call' = [call EXCEPT !.passes = @ + 1]
          ELSE /\ call' = [attempts |-> attempts_after(call.attempts, outcome), passes |-> call.passes + 1]
               /\ UNCHANGED result
    /\ UNCHANGED <<cls_input, cls_output, envVars, remVars, faults, now, voiceVars, diskVars, guiVars>>

\* all attempts failed: return None
ListenGiveUp ==
    /\ ~result.done
    /\ call.attempts >= max_attempts
    /\ result' = [done |-> TRUE, value |-> <<>>]
    /\ UNCHANGED <<cls_input, cls_output, call, envVars, remVars, faults, now, voiceVars, diskVars, guiVars>>

SpecListen == ListenInit /\ [][ListenPass \/ ListenGiveUp]_vars

(* The speech of the GUI: speak() and listen() of the assistant as the GUI's
   threads call them.  call holds the threads: [ui, pending, speaking,
   is_speaking, listening]. *)

MaxSpeechThreads == 3
MaxListenThreads == 2

SpeechInit ==
    /\ call = [ui |-> "idle", pending |-> 0, speaking |-> 0, is_speaking |-> FALSE, listening |-> 0]
    /\ result = [done |-> FALSE]
    /\ AtRest

SpeechUnchanged ==
    UNCHANGED <<cls_input, cls_output, result, envVars, remVars, faults, now, voiceVars, diskVars, guiVars>>

\* display_assistant_message: the message is shown; a thread that will call
\* speak() is started when is_speaking is not set
display_assistant_message(c) ==
    IF ~c.is_speaking /\ c.pending + c.speaking < MaxSpeechThreads
    THEN [c EXCEPT !.pending = @ + 1]
    ELSE c

\* the UI thread shows a message of the assistant
DisplayAssistantMessage ==
    /\ call.ui = "idle"
    /\ call' = display_assistant_message(call)
    /\ call' # call
    /\ SpeechUnchanged

\* a started thread enters speak()
SpeakThreadBegin ==
    /\ call.pending > 0
    /\ call' = [call EXCEPT !.pending = @ - 1, !.speaking = @ + 1, !.is_speaking = TRUE]
    /\ SpeechUnchanged

\* speak() returns in a thread
SpeakThreadEnd ==
    /\ call.speaking > (IF call.ui = "speaking" THEN 1 ELSE 0)
    /\ call' = [call EXCEPT !.speaking = @ - 1, !.is_speaking = FALSE]
    /\ SpeechUnchanged

\* process_reminder, up to the message box
ProcessReminder ==
    /\ call.ui = "idle"
    /\ call' = [display_assistant_message(call) EXCEPT !.ui = "popup"]
    /\ SpeechUnchanged

\* process_reminder, the message box closed: speak() on the UI thread
ProcessReminderSpeak ==
    /\ call.ui = "popup"
    /\ call' = [call EXCEPT !.ui = "speaking", !.speaking = @ + 1, !.is_speaking = TRUE]
    /\ SpeechUnchanged

\* process_reminder returns
ProcessReminderEnd ==
    /\ call.ui = "speaking"
    /\ call' = [call EXCEPT !.ui = "idle", !.speaking = @ - 1, !.is_speaking = FALSE]
    /\ SpeechUnchanged

\* handle_voice_input: a thread that calls listen() is started
HandleVoiceInput ==
    /\ call.ui = "idle"
    /\ call.listening < MaxListenThreads
    /\ call' = [call EXCEPT !.listening = @ + 1]
    /\ SpeechUnchanged

\* listen() returns in its thread
ListenThreadEnd ==
    /\ call.listening > 0
    /\ call' = [call EXCEPT !.listening = @ - 1]
    /\ SpeechUnchanged

SpeechNext ==
    \/ DisplayAssistantMessage
    \/ SpeakThreadBegin
    \/ SpeakThreadEnd
    \/ ProcessReminder
    \/ ProcessReminderSpeak
    \/ ProcessReminderEnd
    \/ HandleVoiceInput
    \/ ListenThreadEnd

SpecSpeech == SpeechInit /\ [][SpeechNext]_vars

(* What a flow says before it returns: adjust_voice() and the medication
   question of update_profile(), each followed on its own from its first
   question.  call holds the flow: [flow, at, heard, acked, updated, tts,
   medications]; acked counts the speak() calls since the last listen()
   returned. *)

\* the adjust_voice() calls one run of the flow may nest
MaxAdjustRounds == 1

AckInit ==
    /\ call \in [flow : {"adjust_voice"}, at : {"voice_ask"}, heard : {<<>>}, acked : {1},
                 updated : {FALSE}, tts : {DefaultTts}, medications : {2}]
           \cup [flow : {"update_profile"}, at : {"up_med_action"}, heard : {<<>>}, acked : {1},
                 updated : {FALSE}, tts : {DefaultTts}, medications : {0, 2}]
    /\ result = [done |-> FALSE]
    /\ AtRest

AckUnchanged ==
    UNCHANGED <<cls_input, cls_output, envVars, remVars, faults, now, voiceVars, diskVars, guiVars>>

\* the flow is back in the loop of run()
AckReturn(c) == result' = [done |-> TRUE, value |-> [returned |-> TRUE, acked |-> c.acked, updated |-> c.updated]]

\* the flow goes on with the questions of a branch that is not followed here
AckGoesOn(c) == result' = [done |-> TRUE, value |-> [returned |-> FALSE, acked |-> c.acked, updated |-> c.updated]]

\* adjust_voice(): a reply to its question; each adjustment is applied,
\* spoken and saved, any other reply goes to the follow-up with nothing said
adjust_voice_heard(c, adjustment) ==
    LET a == Lower(adjustment)
        h == [c EXCEPT !.heard = Append(@, adjustment), !.at = "voice_followup"]
    IN  IF Contains(<<"f","a","s","t","e","r">>, a)
        THEN [h EXCEPT !.tts.rate = Min(DefaultTts.rate + 25, 220), !.acked = 1, !.updated = TRUE]
        ELSE IF Contains(<<"s","l","o","w","e","r">>, a)
        THEN [h EXCEPT !.tts.rate = Max(DefaultTts.rate - 25, 100), !.acked = 1, !.updated = TRUE]
        ELSE IF Contains(<<"l","o","u","d","e","r">>, a)
        THEN [h EXCEPT !.tts.volume = Min(DefaultTts.volume + 100, 1000), !.acked = 1, !.updated = TRUE]
        ELSE IF Contains(<<"q","u","i","e","t","e","r">>, a)
        THEN [h EXCEPT !.tts.volume = Max(DefaultTts.volume - 100, 500), !.acked = 1, !.updated = TRUE]
        ELSE [h EXCEPT !.tts = DefaultTts, !.acked = 0]

AckVoiceAsk ==
    /\ ~result.done
    /\ call.at = "voice_ask"
    /\ \E adjustment \in VoiceReplies :
          call' = IF adjustment = <<>>
                  THEN [call EXCEPT !.heard = Append(@, adjustment), !.at = "voice_retry", !.acked = 1, !.tts = DefaultTts]
                  ELSE adjust_voice_heard(call, adjustment)
    /\ UNCHANGED result
    /\ AckUnchanged

AckVoiceRetry ==
    /\ ~result.done
    /\ call.at = "voice_retry"
    /\ \E adjustment \in VoiceReplies :
          IF adjustment = <<>>
          THEN /\ call' = [call EXCEPT !.heard = Append(@, adjustment), !.at = "loop_top", !.acked = 1, !.tts = DefaultTts]
               /\ AckReturn(call')
          ELSE /\ call' = adjust_voice_heard(call, adjustment)
               /\ UNCHANGED result
    /\ AckUnchanged

\* the follow-up listen() of adjust_voice(): "no"/"not" is answered and
\* adjust_voice() called again, "yes"/"better" is answered, anything else
\* and no reply end the flow
AckVoiceFollowup ==
    /\ ~result.done
    /\ call.at = "voice_followup"
    /\ \E response \in VoiceFollowupReplies :
          LET h == [call EXCEPT !.heard = Append(@, response), !.tts = DefaultTts]
          IN  IF response # <<>> /\ (Contains(<<"n","o">>, Lower(response)) \/ Contains(<<"n","o","t">>, Lower(response)))
              THEN /\ Len(SelectSeq(call.heard, LAMBDA r : r # <<>> /\ Contains(<<"n","o">>, Lower(r)))) < MaxAdjustRounds
                   /\ call' = [h EXCEPT !.at = "voice_ask", !.acked = 2]
                   /\ UNCHANGED result
              ELSE IF response # <<>> /\ (Contains(<<"y","e","s">>, Lower(response)) \/ Contains(<<"b","e","t","t","e","r">>, Lower(response)))
              THEN /\ call' = [h EXCEPT !.at = "loop_top", !.acked = 1]
                   /\ AckReturn(call')
              ELSE /\ call' = [h EXCEPT !.at = "loop_top", !.acked = 0]
                   /\ AckReturn(call')
    /\ AckUnchanged

\* update_profile(): a reply to "add or remove"
med_action_heard(c, med_action) ==
    LET action == Lower(med_action)
        h == [c EXCEPT !.heard = Append(@, med_action)]
    IN  IF Contains(<<"a","d","d">>, action) THEN [h EXCEPT !.at = "up_med_name", !.acked = 1]
        ELSE IF Contains(<<"r","e","m","o","v","e">>, action)
        THEN IF c.medications = 0 THEN [h EXCEPT !.at = "loop_top", !.acked = 1]
             ELSE [h EXCEPT !.at = "up_med_remove", !.acked = 2 + c.medications]
        ELSE [h EXCEPT !.at = "loop_top", !.acked = 0]

AckMedAction ==
    /\ ~result.done
    /\ call.at = "up_med_action"
    /\ \E med_action \in MedActionReplies :
          IF med_action = <<>>
          THEN /\ call' = [call EXCEPT !.heard = Append(@, med_action), !.at = "up_med_action_retry", !.acked = 1]
               /\ UNCHANGED result
          ELSE /\ call' = med_action_heard(call, med_action)
               /\ IF call'.at = "loop_top" THEN AckReturn(call') ELSE AckGoesOn(call')
    /\ AckUnchanged

AckMedActionRetry ==
    /\ ~result.done
    /\ call.at = "up_med_action_retry"
    /\ \E med_action \in MedActionReplies :
          IF med_action = <<>>
          THEN /\ call' = [call EXCEPT !.heard = Append(@, med_action), !.at = "loop_top", !.acked = 1]
               /\ AckReturn(call')
          ELSE /\ call' = med_action_heard(call, med_action)
               /\ IF call'.at = "loop_top" THEN AckReturn(call') ELSE AckGoesOn(call')
    /\ AckUnchanged

AckNext ==
    \/ AckVoiceAsk
    \/ AckVoiceRetry
    \/ AckVoiceFollowup
    \/ AckMedAction
    \/ AckMedActionRetry

SpecAck == AckInit /\ [][AckNext]_vars

(* The dispatch on its own: one line of input, classified and handed to a
   handler by run() of the voice assistant or by process_user_input() of the
   GUI.  call is [front_end, assistant_ready, user_input]. *)

\* run(): the handler the loop calls for a command
run_dispatch(command) ==
    CASE command = "exit" -> "break"
      [] command = "help" -> "display_help"
      [] command = "emergency" -> "handle_emergency"
      [] command = "record glucose" -> "record_health_data(glucose)"
      [] command = "record sleep" -> "record_health_data(sleep)"
      [] command = "record medication" -> "record_health_data(medication)"
      [] command = "update profile" -> "update_profile"
      [] command = "list medications" -> "list_medications"
      [] command = "adjust voice" -> "adjust_voice"
      [] command = "health data" -> "analyze_health_data"
      [] OTHER -> "process_with_groq"

\* process_user_input(): the handler the GUI calls for a command
process_user_input(command, assistant_ready) ==
    CASE command = "exit" -> "on_closing"
      [] ~assistant_ready -> "display_assistant_message"
      [] command = "record glucose" -> "handle_record_glucose_command"
      [] command = "record sleep" -> "handle_record_sleep_command"
      [] command = "record medication" -> "handle_record_medication_command"
      [] command = "health data" -> "handle_health_data_command"
      [] command = "emergency" -> "handle_emergency"
      [] command = "list medications" -> "handle_list_medications_command"
      [] command = "help" -> "handle_help_command"
      [] OTHER -> "process_with_groq"

DispatchInit ==
    /\ call \in [front_end : {"voice"}, assistant_ready : {TRUE}, user_input : ClassifierInputs \ {<<>>}]
           \cup [front_end : {"gui"}, assistant_ready : BOOLEAN, user_input : ClassifierInputs \ {<<>>}]
    /\ result = [done |-> FALSE]
    /\ AtRest

Dispatched ==
    /\ ~result.done
    /\ LET command == IF call.front_end = "voice" THEN identify_command(call.user_input)
                      ELSE ElderCareGUI_identify_command(call.user_input)
       IN  result' = [done |-> TRUE,
                      value |-> [command |-> command,
                                 handler |-> IF call.front_end = "voice" THEN run_dispatch(command)
                                             ELSE process_user_input(command, call.assistant_ready)]]
    /\ UNCHANGED <<cls_input, cls_output, call, envVars, remVars, faults, now, voiceVars, diskVars, guiVars>>

SpecDispatch == DispatchInit /\ [][Dispatched]_vars

----------------------------------------------------------------------------
(* Claims *)

\* the commands that declare the phrase w
Declaring(w) ==
    {command_keywords[i].command : i \in {j \in 1..Len(command_keywords) :
        ExactIn(w, command_keywords[j].keywords)}}

\* the commands that have a trigger phrase inside w
Matching(w) ==
    {i \in 1..Len(command_keywords) :
        \E k \in 1..Len(command_keywords[i].keywords) :
            Contains(command_keywords[i].keywords[k], w)}

\* C1: an utterance that, lower-cased and trimmed, is a declared trigger
\* phrase is classified as the command that declares the phrase, whatever
\* earlier commands have a phrase inside it.
C1_ExactPhraseWins ==
    (cls_output # "pending" /\ cls_input # <<>> /\ Declaring(Strip(Lower(cls_input))) # {})
        => Declaring(Strip(Lower(cls_input))) = {cls_output}

C1_Witness ==
    /\ Strip(Lower(cls_input)) = <<"s","h","o","w"," ","m","e","d","i","c","i","n","e","s">>
    /\ cls_input # <<"s","h","o","w"," ","m","e","d","i","c","i","n","e","s">>
    /\ 3 \in Matching(Strip(Lower(cls_input)))
    /\ cls_output = "list medications"

\* C2: an utterance that is not verbatim a trigger phrase is classified as
\* the first command in declaration order with a trigger phrase inside it,
\* and as none only when no command has one.
C2_FirstDeclaredWins ==
    (cls_output # "pending" /\ cls_input # <<>> /\ Declaring(Strip(Lower(cls_input))) = {})
        => LET m == Matching(Strip(Lower(cls_input)))
           IN  /\ (m = {}) <=> (cls_output = NoneCmd)
               /\ m # {} => cls_output = command_keywords[CHOOSE i \in m : \A j \in m : i <= j].command

C2_Witness ==
    /\ cls_input = <<"h","e","l","p"," ","m","e"," ","p","l","e","a","s","e">>
    /\ {5, 9} \subseteq Matching(cls_input)
    /\ cls_output = "emergency"


\* the rows of df dated d
OneRowPerDate(df) == \A i, j \in 1..Len(df) : df[i].date = df[j].date => i = j

\* the row of df dated d (there is one)
RowOn(df, d) == df[CHOOSE i \in 1..Len(df) : df[i].date = d]

HasRow(df, d) == \E i \in 1..Len(df) : df[i].date = d

\* C3: after any sequence of record operations, by voice or in the forms, the
\* store in memory has at most one row per date: a write for a date that has a
\* row changes that row and adds none.
C3_OneRowPerDate ==
    /\ OneRowPerDate(health_data)
    /\ OneRowPerDate(gui_health_data)

\* a day that had no row at the start got two writes by voice
C3_Witness ==
    /\ frontend = "voice"
    /\ HasRow(health_data, 2)
    /\ RowOn(health_data, 2).glucose_morning # <<>>
    /\ RowOn(health_data, 2).glucose_evening # <<>>
    /\ Len(health_data) = Len(disk_health)

\* what the user said, as numbers: the replies of the glucose flow that hold a number
SpokenGlucose(value) ==
    CASE value = <<"1","4","5">> -> <<14500>>
      [] value = <<"i","t"," ","w","a","s"," ","1","1","0",".","5"," ","m","g">> -> <<11050>>
      [] OTHER -> <<>>

\* one step of the glucose flow does what C4 says
C4_Step ==
    LET d == frame'.today
        before == RowOn(health_data, d)
        after == RowOn(health_data', d)
        said == Lower(frame'.timing)
    IN  \* the flow starts: a day that has a row gets no second one
        /\ (pc = "loop_listen" /\ pc' = "glucose_value" /\ HasRow(health_data, now.day))
              => health_data' = health_data
        \* the timing is heard: the value goes to the column it names, the other stays
        /\ (pc \in {"glucose_timing", "glucose_timing_retry"} /\ pc' = "glucose_save"
            /\ SpokenGlucose(frame'.value) # <<>>)
              => /\ Len(health_data') = Len(health_data)
                 /\ Contains(<<"m","o","r","n","i","n","g">>, said)
                       => /\ after.glucose_morning = SpokenGlucose(frame'.value)
                          /\ after.glucose_evening = before.glucose_evening
                 /\ (Contains(<<"e","v","e","n","i","n","g">>, said) /\ ~Contains(<<"m","o","r","n","i","n","g">>, said))
                       => /\ after.glucose_evening = SpokenGlucose(frame'.value)
                          /\ after.glucose_morning = before.glucose_morning
        \* the flow ends: the store is persisted as it is
        /\ (pc = "glucose_save" /\ pc' # pc)
              => health_data' = health_data /\ disk_health' = health_data

\* C4: in the glucose flow a value v with a timing that says "morning" sets
\* glucose_morning = v in today's row and the store is saved; repeated the same
\* day with "evening" and w, the same row gets glucose_evening = w, glucose_morning
\* stays v and no row is added.
C4_GlucoseFlow == [][C4_Step]_vars

\* the evening value is written after the morning value of the same day
C4_Witness ==
    /\ pc = "glucose_save"
    /\ frame.timing = <<"e","v","e","n","i","n","g">>
    /\ frame.value = <<"i","t"," ","w","a","s"," ","1","1","0",".","5"," ","m","g">>
    /\ RowOn(health_data, frame.today).glucose_morning = <<14500>>
    /\ RowOn(health_data, frame.today).glucose_evening = <<11050>>
    /\ Len(health_data) = 2

SleepCells(df) == {df[i].sleep_hours : i \in 1..Len(df)} \ {<<>>}

\* C5: no recording operation, by voice or in the sleep form, writes a
\* sleep_hours outside (0, 24].
C5_SleepInRange ==
    \A cell \in SleepCells(health_data) \cup SleepCells(gui_health_data) :
        cell[1] > 0 /\ cell[1] <= 2400


\* the texts put on a queue, in order
Texts(log) == [k \in 1..Len(log) |-> log[k].text]

\* one step of the voice assistant delivers the reminders as C7 says
C7_Step ==
    \* what was enqueued is what was spoken followed by what waits, in that order
    /\ frontend = "voice" => Texts(enqueued') = spoken' \o response_queue'
    \* a reminder is spoken only in the step at the top of the loop, the oldest first
    /\ spoken' # spoken
          => /\ pc = "loop_top" /\ pc' = "loop_listen"
             /\ response_queue # <<>>
             /\ spoken' = Append(spoken, Head(response_queue))
    \* and the loop acquires an utterance only after that step
    /\ (pc' = "loop_listen" /\ pc # "loop_listen") => pc = "loop_top"

\* C7: the loop speaks the reminders in exactly the order the scheduler
\* enqueued them, each at the top of an iteration before that iteration
\* starts acquiring an utterance.
C7_FifoAtLoopTop == [][C7_Step]_vars

\* two reminders enqueued in the same minute were spoken in their order while a third waits
C7_Witness ==
    /\ frontend = "voice"
    /\ Len(spoken) = 2
    /\ spoken[1] = ReminderText(user_profile.medications[1])
    /\ spoken[2] = ReminderText(user_profile.medications[2])
    /\ response_queue # <<>>
    /\ pc = "loop_listen"

\* where run() stands inside a slot-filling flow
FlowPcs ==
    {"glucose_value", "glucose_value_retry", "glucose_timing", "glucose_timing_retry", "glucose_save",
     "sleep_value", "sleep_value_retry", "sleep_save",
     "med_taken", "med_taken_retry", "med_which", "med_abort", "med_missed", "med_save",
     "emergency_ask", "emergency_retry", "emergency_end",
     "voice_ask", "voice_retry", "voice_save", "voice_followup"} \cup ProfilePcs

\* C8: while a slot-filling flow is in progress no reminder is spoken,
\* whatever the reminder thread enqueues in the meantime.
C8_NoReminderInFlow == [][(pc \in FlowPcs) => (spoken' = spoken)]_vars

\* a flow begun on day 1 is still in progress on day 2 at 08:00, with that minute's reminders waiting
C8_Witness ==
    /\ pc = "sleep_value"
    /\ frame.today = 1
    /\ now.day = 2 /\ now.tp = 2
    /\ Len(enqueued) >= 7
    /\ enqueued[Len(enqueued)].day = 2
    /\ response_queue # <<>>
    /\ response_queue[Len(response_queue)] = enqueued[Len(enqueued)].text

\* the reminders there are for the profile of the front end that runs: identity and minute of the day
Occurrences ==
    LET medications == IF frontend = "gui" THEN gui_user_profile.medications ELSE user_profile.medications
    IN  UNION { { [id |-> <<i, j>>, at |-> ParseTime(medications[i].times[j])] :
                     j \in 1..Len(medications[i].times) } : i \in 1..Len(medications) }
        \cup { [id |-> <<0, 1>>, at |-> 600], [id |-> <<0, 2>>, at |-> 840], [id |-> <<0, 3>>, at |-> 1200] }

\* the occurrence of o on day d came due while the process was running
CameDue(o, d) ==
    /\ Instant(d, o.at) > Instant(1, TimePoints[1])
    /\ Instant(d, o.at) <= Instant(now.day, Minute(now))

\* how often the occurrence of o on day d was put on a queue
TimesEnqueued(o, d) ==
    Cardinality({k \in 1..Len(enqueued) : enqueued[k].id = o.id /\ enqueued[k].day = d})

ExactlyOnce ==
    \A o \in Occurrences : \A d \in 1..MaxDay :
        TimesEnqueued(o, d) = IF CameDue(o, d) THEN 1 ELSE 0

\* the voice scheduler alone
VoiceExactlyOnce == (frontend = "voice" /\ session = "reminders" /\ pc # "start") => ExactlyOnce

\* C9: each due occurrence of a reminder (a medication time on a day, a fixed
\* daily prompt on a day) is put on the delivery queue exactly once while the
\* process runs, under the voice scheduler and under the GUI's poll alike.
C9_ExactlyOnce == (frontend \in {"voice", "gui"} /\ session = "reminders" /\ pc # "start") => ExactlyOnce


\* C6: every path by which run() terminates (the exit intent, an interrupt,
\* an unexpected exception) has completed a save of the profile and of the
\* store: when run() is left the files hold what memory holds.
C6_SavedWhenRunEnds ==
    pc \in {"done", "raised"} => (disk_profile = user_profile /\ disk_health = health_data)

\* the text of the reminder of a medication of the pool
ExpectedText(medication) ==
    CASE medication.name = <<"M","e","t","f","o","r","m","i","n">> -> <<"T","i","m","e"," ","t","o"," ","t","a","k","e"," ","y","o","u","r"," ","M","e","t","f","o","r","m","i","n",","," ","5","0","0","m","g",".">>
      [] medication.name = <<"L","i","s","i","n","o","p","r","i","l">> -> <<"T","i","m","e"," ","t","o"," ","t","a","k","e"," ","y","o","u","r"," ","L","i","s","i","n","o","p","r","i","l",","," ","1","0","m","g",".">>
      [] medication.name = <<"A","s","p","i","r","i","n">> -> <<"T","i","m","e"," ","t","o"," ","t","a","k","e"," ","y","o","u","r"," ","A","s","p","i","r","i","n",","," ","8","1","m","g",".">>

\* the jobs of js that are the entry id
Entries(js, id) == {k \in 1..Len(js) : js[k].id = id}

\* the only job of js that is the entry id is at time_str with text
OneEntry(js, id, time_str, text) ==
    /\ Cardinality(Entries(js, id)) = 1
    /\ \A k \in Entries(js, id) : js[k].at = time_str /\ js[k].text = text

RECURSIVE SumOfTimes(_)
SumOfTimes(medications) ==
    IF medications = <<>> THEN 0 ELSE Len(Head(medications).times) + SumOfTimes(Tail(medications))

\* C10: after _schedule_reminders() has run, once or again, the schedule holds
\* exactly one entry per (medication, time) pair of the current profile, with
\* the text of that medication, and exactly the three daily entries at 10:00,
\* 14:00 and 20:00: what an earlier call scheduled is gone.
C10_ScheduleRebuilt ==
    pc = "scheduled" =>
        LET medications == user_profile.medications
        IN  /\ \A i \in 1..Len(medications) : \A j \in 1..Len(medications[i].times) :
                  OneEntry(jobs, <<i, j>>, medications[i].times[j], ExpectedText(medications[i]))
            /\ OneEntry(jobs, <<0, 1>>, <<"1","0",":","0","0">>, WaterText)
            /\ OneEntry(jobs, <<0, 2>>, <<"1","4",":","0","0">>, WalkText)
            /\ OneEntry(jobs, <<0, 3>>, <<"2","0",":","0","0">>, RecordText)
            /\ Len(jobs) = SumOfTimes(medications) + 3

\* the schedule was rebuilt for a profile edited after the first build: Aspirin four times a day, Metformin twice
C10_Witness ==
    /\ pc = "scheduled"
    /\ user_profile.medications = <<Aspirin, DefaultProfile.medications[1]>>
    /\ Len(jobs) = 9
    /\ jobs[5].text = <<"T","i","m","e"," ","t","o"," ","t","a","k","e"," ","y","o","u","r"," ","M","e","t","f","o","r","m","i","n",","," ","5","0","0","m","g",".">>
    /\ jobs[5].at = <<"0","8",":","0","0">>

----------------------------------------------------------------------------

\* a step of the reminder thread: the clock of the voice program moves to the next poll
ThreadStep == frontend = "voice" /\ now' = NextPoll(now) /\ now' # now

\* C11: every step of the background reminder thread leaves the profile and
\* the store as they are, in memory and on disk; all it does to the program
\* is append reminder texts at the end of the queue.
C11_ThreadOnlyQueues ==
    [][ThreadStep =>
          /\ user_profile' = user_profile /\ health_data' = health_data
          /\ disk_profile' = disk_profile /\ disk_health' = disk_health
          /\ Len(response_queue') >= Len(response_queue)
          /\ SubSeq(response_queue', 1, Len(response_queue)) = response_queue
          /\ spoken' = spoken]_vars

\* the thread has run jobs: their texts are on the queue, behind one another
C11_Witness ==
    /\ frontend = "voice"
    /\ Len(enqueued) >= 2
    /\ Len(response_queue) >= 2
    /\ health_data = disk_health

----------------------------------------------------------------------------

\* a step that leaves update_profile through one of its save_user_data() calls
ProfileSaved == pc \in {"up_save", "up_age_save"} /\ pc' = "loop_top"

\* C12: a name that was answered with "no" is not written to storage: once
\* a proposed name has been rejected, what update_profile persists is one
\* name change, the name that was accepted afterwards.
C12_RejectedNameNotSaved ==
    [][(ProfileSaved /\ frame.rejected # {}) =>
          disk_profile'.name = frame.accepted]_vars

\* C13: after a "no" to the read-back of a new name (a new age), the next
\* reply is taken as a value of the same slot: update_profile stands at the
\* name (age) question again, not at the menu.
C13_SameSlotRestart ==
    [][/\ (pc = "up_name_confirm" /\ pc' \notin {"up_name_confirm", "up_save"}) => pc' = "up_name"
       /\ (pc = "up_age_confirm" /\ pc' \notin {"up_age_confirm", "up_age_save"}) => pc' = "up_age"]_vars

----------------------------------------------------------------------------

\* C14: every slot-filling flow comes to its end after a bounded number of
\* questions, whatever the user replies: a flow that has begun is followed
\* by the top of the loop of run().
C14_FlowsTerminate == (pc \in FlowPcs) ~> (pc = "loop_top")

----------------------------------------------------------------------------

\* the number the reply holds, 0 when it holds none
SpokenNumber(reply) == IF RegexInteger(reply) = <<>> THEN 0 ELSE NatOf(RegexInteger(reply))

\* the places of the medications whose name the reply holds, whatever the case
NamedIn(medications, reply) ==
    {i \in 1..Len(medications) : Contains(Lower(medications[i].name), Lower(reply))}

\* the list without its i-th entry: one entry less, the others in their order
Without(medications, i, left) ==
    /\ Len(left) = Len(medications) - 1
    /\ \A k \in 1..Len(left) : left[k] = IF k < i THEN medications[k] ELSE medications[k + 1]

----------------------------------------------------------------------------

\* C16: "Are you still there?" is asked exactly when run() has acquired
\* max_failures empty inputs one after another since the last utterance
\* (a reply to an earlier "Are you still there?" included) or the last
\* resume, and never after fewer.
C16_StalledAfterThree ==
    [][(pc # "stalled" /\ pc' = "stalled") <=> (empty_run' = max_failures /\ empty_run' # empty_run)]_vars

----------------------------------------------------------------------------

\* C17: with fewer than 3 records in the store analyze_health_data returns
\* the one "not enough data" sentence and no insight, whatever is recorded.
C17_NotEnoughData ==
    (result.done /\ Len(call.health_data) < 3) => result.value = NotEnoughData

\* two days with every metric recorded, and still no insight
C17_Witness ==
    /\ result.done
    /\ Len(call.health_data) = 2
    /\ \A i \in 1..2 : call.health_data[i].glucose_morning # <<>> /\ call.health_data[i].sleep_hours # <<>>
    /\ result.value = NotEnoughData

----------------------------------------------------------------------------

\* the last seven records, and the morning values among them
LastSeven(df) == [k \in 1..Min(7, Len(df)) |-> df[Len(df) - Min(7, Len(df)) + k]]
MorningValues(df) == SelectSeq([k \in 1..Len(LastSeven(df)) |-> LastSeven(df)[k].glucose_morning], LAMBDA c : c # <<>>)
MorningTotal(df) == SeqSum([k \in 1..Len(MorningValues(df)) |-> MorningValues(df)[k][1]])

\* the glucose sentences of a result
GlucoseSentences(sentences) == SelectSeq(sentences, LAMBDA x : x.metric = "glucose")

\* C18: with 3 records or more the glucose sentence follows the mean m of
\* the morning values that are there among the last 7 records: "running
\* high" iff m > 180, "running low" iff m < 70, "good range" otherwise, and
\* the number in it is m rounded to an integer (no more than a half away).
C18_GlucoseSentence ==
    (result.done /\ Len(call.health_data) >= 3 /\ MorningValues(call.health_data) # <<>>) =>
        LET total == MorningTotal(call.health_data)     \* hundredths
            count == Len(MorningValues(call.health_data))
            said == GlucoseSentences(result.value)
        IN  /\ Len(said) = 1
            /\ said[1].kind = "running high" <=> total > 18000 * count
            /\ said[1].kind = "running low" <=> total < 7000 * count
            /\ said[1].kind = "good range" <=> (total >= 7000 * count /\ total <= 18000 * count)
            /\ 2 * (100 * count * said[1].number - total) <= 100 * count
            /\ 2 * (total - 100 * count * said[1].number) <= 100 * count

\* 190, 195 and 200 give "running high" with 195
C18_Witness ==
    /\ result.done
    /\ Len(call.health_data) = 3
    /\ [i \in 1..3 |-> call.health_data[i].glucose_morning] = << <<19000>>, <<19500>>, <<20000>> >>
    /\ GlucoseSentences(result.value) = << Sentence("glucose", "running high", 195) >>

----------------------------------------------------------------------------

\* a metric has a value among the last seven records
Recorded(df, column) == \E k \in 1..Len(LastSeven(df)) : LastSeven(df)[k][column] # <<>>

\* the metrics in the order of the sentences
MetricOrder == <<"glucose", "adherence", "sleep">>
MetricColumn == [glucose |-> "glucose_morning", adherence |-> "medication_adherence", sleep |-> "sleep_hours"]

\* C19: with 3 records or more there is at most one sentence for a metric,
\* in the order glucose, adherence, sleep, and a metric has its sentence iff
\* it has a value among the last 7 records; with no metric recorded there
\* the result is the one "insufficient data" message.
C19_SentencesInOrder ==
    (result.done /\ Len(call.health_data) >= 3) =>
        LET df == call.health_data
            due == SelectSeq(MetricOrder, LAMBDA m : Recorded(df, MetricColumn[m]))
        IN  IF due = <<>> THEN result.value = InsufficientData
            ELSE [k \in 1..Len(result.value) |-> result.value[k].metric] = due

\* a table of eight rows: the first row alone holds a sleep value, and sleep has no sentence
C19_Witness ==
    /\ result.done
    /\ Len(call.health_data) = 8
    /\ call.health_data[1].sleep_hours # <<>>
    /\ call.health_data[8].medication_adherence # <<>>
    /\ [k \in 1..Len(result.value) |-> result.value[k].metric] = <<"glucose", "adherence">>

----------------------------------------------------------------------------

\* the backend failed: a status that is not 2xx, or the request did not get through
BackendFailed(f) == f.backend \in {"not 2xx", "ConnectionError", "Timeout"}

\* C20: when the backend of the open reply answers with a status that is
\* not 2xx or the request fails in transport, process_with_groq returns a
\* fixed apology and does not raise; run() speaks it and is back at the top
\* of its loop, never on its way out.
C20_BackendFailureRecovered ==
    [][/\ (pc = "groq_call" /\ pc' # pc) =>
            /\ pc' = "groq_speak"
            /\ BackendFailed(frame') => frame'.value \in {<<TroubleThinking>>, <<TechnicalIssue>>}
       /\ (pc = "groq_speak" /\ pc' # pc) => pc' = "loop_top"]_vars

\* an utterance that is no command met a backend that could not be reached
C20_Witness ==
    /\ pc = "groq_speak"
    /\ frame.backend = "Timeout"
    /\ frame.value = <<TechnicalIssue>>

----------------------------------------------------------------------------

\* C21: listen() returns, with a text or with None, after at most
\* max_attempts acquisitions, whatever the recognizers answer: the loop
\* makes no pass beyond the third.
C21_ListenBounded == call.passes <= max_attempts

\* C22: at no time are two speak() calls active, and no listen() starts while
\* a speak() is active, in the GUI's threads (display_assistant_message,
\* process_reminder, handle_voice_input).
C22_SpeechSerialized ==
    [][/\ call'.speaking <= 1
       /\ (call'.listening > call.listening => call.speaking = 0)]_vars

\* the save_user_data() calls of the flows and of the exit branch
SavePoints ==
    {"exit_save", "glucose_save", "sleep_save", "med_save", "voice_save", "up_save", "up_age_save"}

\* C23: when save_user_data() fails inside a flow or in the exit branch, the
\* loop of run() is not left through an exception: it goes on at its top,
\* from where it listens again.
C23_SaveFailureKeepsLoop ==
    [][(pc \in SavePoints /\ faults' > faults /\ pc' # "kbd_handler") => pc' = "loop_top"]_vars

\* C24: a flow that returns to the loop without having made its update has
\* spoken at least once since the last reply it acquired; this holds for
\* adjust_voice() after a reply that names no adjustment and for
\* update_profile() after a medication action that is neither add nor remove.
C24_AcknowledgedBeforeReturn ==
    (result.done /\ result.value.returned /\ ~result.value.updated) => result.value.acked >= 1

\* C25: in the voice loop and in the GUI with its assistant available, the
\* open reply of process_with_groq is asked for exactly when the classifier
\* finds no command: every command it names goes to a handler of its own.
C25_OpenReplyOnlyForNone ==
    (result.done /\ call.assistant_ready) =>
        (result.value.handler = "process_with_groq" <=> result.value.command = NoneCmd)

\* C26: when record_health_data("glucose") or ("sleep") gives up after its
\* second value question, the table is what it was when the flow was
\* entered (no row added, no cell written) and no file is written.
C26_AbortLeavesStore ==
    [][(pc \in {"glucose_value_retry", "sleep_value_retry"} /\ pc' = "loop_top")
          => (health_data' = frame.before /\ UNCHANGED diskVars)]_vars

\* the table with the adherence of the day set to value, all else as it is
AdherenceSet(df, today, value) ==
    /\ Len(health_data') = Len(df)
    /\ \A i \in 1..Len(df) :
          health_data'[i] = IF df[i].date = today
                            THEN [df[i] EXCEPT !.medication_adherence = <<value>>]
                            ELSE df[i]

\* C27: in record_health_data("medication"), two empty replies to the yes/no
\* question lead to "Which medications did you take today?"; the adherence
\* of the day becomes 0.75 and is saved iff that reply holds the name of a
\* medication of the profile, whatever the case of its letters; otherwise
\* the flow ends with the adherence, and the files, as they were.
C27_WhichDecidesAdherence ==
    [][/\ (pc = "med_taken_retry" /\ pc' # pc /\ frame'.value = <<>>) => pc' = "med_which"
       /\ (pc = "med_which" /\ pc' # pc) =>
             IF frame'.value # <<>> /\ NamedIn(user_profile.medications, frame'.value) # {}
             THEN pc' = "med_save" /\ AdherenceSet(health_data, frame.today, 75)
             ELSE pc' = "med_abort" /\ UNCHANGED <<health_data, diskVars>>
       /\ (pc = "med_save" /\ pc' # pc) => (health_data' = health_data /\ disk_health' = health_data)
       /\ (pc = "med_abort" /\ pc' # pc) => (pc' = "loop_top" /\ UNCHANGED <<health_data, diskVars>>)]_vars

C27_Witness ==
    /\ pc = "med_save"
    /\ NamedIn(user_profile.medications, frame.value) # {}
    /\ \E i \in 1..Len(health_data) :
          health_data[i].date = frame.today /\ health_data[i].medication_adherence = <<75>>

\* C28: in the add branch of update_profile() the first question for the
\* name never ends the flow: after an empty reply the name is asked for once
\* more, and only that second question can give up.
C28_NameAskedAgain ==
    [][(pc = "up_med_name" /\ pc' # pc) => pc' \in {"up_med_name_confirm", "up_med_name_again"}]_vars

\* C29: whatever medications were added by voice, added, edited or removed
\* in the GUI, every medication of the profile, in memory and in the file,
\* has at least one time of day.
C29_EveryMedicationTimed ==
    \A profile \in {user_profile, gui_user_profile, disk_profile} :
        \A i \in 1..Len(profile.medications) : profile.medications[i].times # <<>>

\* a state in which the three operations, or the voice add by default, have acted
C29_Witness ==
    \/ /\ frontend = "gui"
       /\ Len(disk_profile.medications) = 2
       /\ \E i \in 1..2 : disk_profile.medications[i].name = <<"A","s","p","i","r","i","n">>
       /\ \E i \in 1..2 : disk_profile.medications[i].times = << <<"1","2",":","0","0">>, <<"2","2",":","0","0">> >>
    \/ /\ frontend = "voice"
       /\ Len(disk_profile.medications) = 3
       /\ disk_profile.medications[3].times = << <<"0","8",":","0","0">> >>

\* the adherence cells of a table that hold a value
AdherenceValues(df) ==
    {df[i].medication_adherence[1] : i \in {k \in 1..Len(df) : df[k].medication_adherence # <<>>}}

\* C30: whatever was recorded by voice or in the GUI, an adherence held by
\* the table, in memory or in the file, is 1.0, 0.75 or 0.5.
C30_AdherenceTriValued ==
    AdherenceValues(health_data) \cup AdherenceValues(gui_health_data) \cup AdherenceValues(disk_health)
        \subseteq {100, 75, 50}

\* the file holds the three values on three days
C30_Witness ==
    AdherenceValues(disk_health) = {100, 75, 50}

\* C31: the top of the loop of run() speaks every reminder that is in the
\* queue at that moment before listen() is called: none of them is still
\* queued when the loop starts to listen.
C31_QueueDrainedAtLoopTop ==
    [][(pc = "loop_top" /\ pc' = "loop_listen") => response_queue' = <<>>]_vars

\* C32: once the GUI is closed, user_profile.json and health_data.csv hold
\* the profile and the table of the GUI as they are in memory: what was
\* recorded or edited in the GUI is in the files.
C32_ClosedFilesAreGuiState ==
    (frontend = "gui" /\ pc = "closed") =>
        (disk_profile = gui_user_profile /\ disk_health = gui_health_data)

\* C33: when update_profile(), after a "no" to the read-back of a name or
\* of an age, returns to the loop without having saved, the name and the
\* age in memory are those the profile had when update_profile() was entered.
C33_RejectedValueUndone ==
    [][(/\ pc \in ProfilePcs
        /\ pc' = "loop_top"
        /\ ~ProfileSaved
        /\ (frame.rejected # {} \/ frame.guarded))
          => (user_profile'.name = frame.entered.name /\ user_profile'.age = frame.entered.age)]_vars

\* a reply that says yes
Affirmative(reply) == reply # <<>> /\ Contains(<<"y","e","s">>, Lower(reply))

\* C34: update_profile() goes from the read-back of a new name, age,
\* medication or emergency contact to its save only on a reply that says
\* yes; no reply at all does not lead to the save.
C34_SavedOnlyWhenAffirmed ==
    [][(/\ pc \in {"up_name_confirm", "up_age_confirm", "up_med_confirm", "up_contact_phone_confirm"}
        /\ pc' \in {"up_save", "up_age_save"})
          => Affirmative(frame'.confirmation)]_vars

\* the entries of a schedule: what is put on the queue, and at what time of day
JobEntries(js) == {<<js[i].at, js[i].text>> : i \in 1..Len(js)}

\* C35: whenever run() is at the top of its loop, after medications were
\* added or removed by update_profile() too, the schedule holds the entries
\* of the profile as it is now: one for every time of every medication, none
\* for a medication that is no longer there.
C35_ScheduleFollowsProfile ==
    (frontend = "voice" /\ pc = "loop_top") =>
        JobEntries(jobs) = JobEntries(schedule_reminders(<<>>, user_profile, now))

\* C36: the rate and the volume of the engine change only when adjust_voice()
\* applies an adjustment, so that an adjustment stays through every later
\* listen() and speak(); and when the rate is adjusted the preference
\* voice_speed (in thousandths) is the new rate / 200.
C36_AdjustmentStays ==
    [][/\ tts' # tts => (pc \in {"voice_ask", "voice_retry"} /\ pc' = "voice_save")
       /\ (pc' = "voice_save" /\ tts'.rate # tts.rate)
             => user_profile'.preferences.voice_speed * 200 = tts'.rate * 1000]_vars

\* C37: ElderCareGUI.identify_command and the assistant's identify_command
\* give the same command, or none, for every utterance.
C37_SameClassification ==
    cls_output # "pending" => ElderCareGUI_identify_command(cls_input) = cls_output

\* the places in the log of the reminders put on the queue: each job of the
\* schedule runs once a day at most
Deliveries ==
    1..(MaxDay * Len(schedule_reminders(<<>>, DefaultProfile, [day |-> 1, tp |-> 1, half |-> 0])))

\* C38: as long as run() keeps coming back to the top of its loop, every
\* reminder put on the queue is spoken in the end, and in its place: the
\* n-th reminder put on the queue is the n-th reminder spoken, none is
\* dropped and none overtaken.
C38_EveryReminderSpoken ==
    []<>(pc = "loop_top") =>
        \A n \in Deliveries :
            (Len(enqueued) >= n) ~> (Len(spoken) >= n /\ spoken[n] = enqueued[n].text)

\* the reminders of two days were all spoken, between the commands of the user
C38_Witness ==
    /\ pc = "loop_listen"
    /\ now.day = MaxDay
    /\ Len(enqueued) > Len(user_profile.medications)
    /\ enqueued[Len(enqueued)].day = MaxDay
    /\ response_queue = <<>>
    /\ spoken = Texts(enqueued)
    /\ user_profile # DefaultProfile

\* a reply that holds one of the words handle_emergency() looks for
Urgent(reply) ==
    \E word \in {<<"y","e","s">>, <<"h","e","l","p">>, <<"p","l","e","a","s","e">>} : Contains(word, Lower(reply))

\* C39: handle_emergency() announces the call of the emergency contact when
\* the user was silent at both questions and when the last reply holds
\* "yes", "help" or "please"; it does not when the last reply holds none of
\* them.  Nothing in the flow changes the profile, the table or the files.
C39_EmergencyFailSafe ==
    [][/\ (pc' = "emergency_end" /\ pc' # pc)
           => (frame'.called <=> (frame'.value = <<>> \/ Urgent(frame'.value)))
       /\ (pc \in {"emergency_ask", "emergency_retry", "emergency_end"})
           => UNCHANGED <<user_profile, health_data, diskVars>>]_vars

\* the user was silent at both questions and the call is announced
C39_Witness ==
    /\ pc = "emergency_end"
    /\ frame.value = <<>>
    /\ frame.called
    /\ user_profile = disk_profile
    /\ health_data = disk_health

=============================================================================
